---- MODULE Spec2Model ----
(***************************************************************************)
(* Model of the Redfish dump reports (src/redfish_investigation): the      *)
(* safe navigation helper safe_get (two variants), the reference helper    *)
(* _last_segment / extract_chassis_id, the document loaders and the        *)
(* per-host walks get_device_information, get_fan_metrics,                 *)
(* get_power_metrics, get_temperature_information, get_raid_information.   *)
(*                                                                         *)
(* Python values are tagged records: None/null, int, str, list, dict.      *)
(* A str is a sequence of characters (one-character TLA+ strings); the     *)
(* keys of a dict are TLA+ strings.                                        *)
(***************************************************************************)
EXTENDS Integers, Sequences, FiniteSets, TLC

VARIABLES fs, fn, pc, members, idx, result, loc, reads, arg, ret

vars == <<fs, fn, pc, members, idx, result, loc, reads, arg, ret>>

(***************************************************************************)
(* Python / JSON values                                                    *)
(***************************************************************************)
JNull == [t |-> "null"]

JNum(n) == [t |-> "num", n |-> n]

JStr(s) == [t |-> "str", s |-> s]

JArr(a) == [t |-> "arr", a |-> a]

JObj(o) == [t |-> "obj", o |-> o]

EmptyObj == JObj([k \in {} |-> JNull])

Obj1(k, v) == JObj([x \in {k} |-> v])

IsNone(v) == v.t = "null"

IsStr(v) == v.t = "str"

IsList(v) == v.t = "arr"

IsDict(v) == v.t = "obj"

\* Python truth value of a value: `if x` / `not x` / `x or y`.
Truthy(v) ==
    CASE v.t = "null" -> FALSE
      [] v.t = "num" -> v.n # 0
      [] v.t = "str" -> v.s # <<>>
      [] v.t = "arr" -> v.a # <<>>
      [] v.t = "obj" -> DOMAIN v.o # {}

\* Python `x or y`.
Or(x, y) == IF Truthy(x) THEN x ELSE y

\* The outcome of a Python expression: a value, or an exception propagating.
Ok(v) == [exc |-> "", v |-> v]

Raise(e) == [exc |-> e, v |-> JNull]

\* A key handed to safe_get: a field name or an integer index.
KName(s) == [k |-> s]

KIdx(i) == [i |-> i]

IsIntKey(key) == "i" \in DOMAIN key

\* dict.get(key, default): a JSON object has string keys only.
DictGet(d, key, default) ==
    IF ~IsIntKey(key) /\ key.k \in DOMAIN d.o THEN d.o[key.k] ELSE default

(***************************************************************************)
(* safe_get, as in the five report modules.                                *)
(***************************************************************************)
RECURSIVE safe_get_skips_first(_, _, _)
\* Mutant of safe_get: the index test reads 0 < key instead of 0 <= key.
safe_get_skips_first(data, keys, default) ==
    IF keys = <<>> THEN data
    ELSE LET key == Head(keys) IN
         IF IsDict(data)
         THEN LET current == DictGet(data, key, default) IN
              IF IsNone(current) THEN default
              ELSE safe_get_skips_first(current, Tail(keys), default)
         ELSE IF IsList(data)
         THEN IF IsIntKey(key) /\ 0 < key.i /\ key.i < Len(data.a)
              THEN LET current == data.a[key.i + 1] IN
                   IF IsNone(current) THEN default
                   ELSE safe_get_skips_first(current, Tail(keys), default)
              ELSE default
         ELSE default

RECURSIVE safe_get(_, _, _)
safe_get(data, keys, default) ==
    IF keys = <<>> THEN data
    ELSE LET key == Head(keys) IN
         IF IsDict(data)
         THEN LET current == DictGet(data, key, default) IN
              IF IsNone(current) THEN default
              ELSE safe_get(current, Tail(keys), default)
         ELSE IF IsList(data)
         THEN IF IsIntKey(key) /\ 0 <= key.i /\ key.i < Len(data.a)
              THEN LET current == data.a[key.i + 1] IN
                   IF IsNone(current) THEN default
                   ELSE safe_get(current, Tail(keys), default)
              ELSE default
         ELSE default

(***************************************************************************)
(* safe_get, as in script.py.  A list index is only tested against the     *)
(* upper end, so current[key] sees negative keys: Python counts them from  *)
(* the end and raises IndexError below -len.                               *)
(***************************************************************************)
\* Python list indexing current[key].
ListIndex(a, i) ==
    IF 0 <= i /\ i < Len(a) THEN Ok(a[i + 1])
    ELSE IF i < 0 /\ -Len(a) <= i THEN Ok(a[Len(a) + i + 1])
    ELSE Raise("IndexError")

RECURSIVE safe_get_script_no_default(_, _, _)
\* A variant of safe_get of script.py: a key that is absent or null ends the
\* lookup with None instead of the default.
safe_get_script_no_default(data, keys, default) ==
    IF keys = <<>> THEN Ok(IF IsNone(data) THEN default ELSE data)
    ELSE LET key == Head(keys) IN
         IF IsDict(data)
         THEN LET current == DictGet(data, key, JNull) IN
              IF IsNone(current) THEN Ok(JNull)
              ELSE safe_get_script_no_default(current, Tail(keys), default)
         ELSE Ok(default)

RECURSIVE safe_get_script(_, _, _)
safe_get_script(data, keys, default) ==
    IF keys = <<>> THEN Ok(IF IsNone(data) THEN default ELSE data)
    ELSE LET key == Head(keys) IN
         IF IsDict(data)
         THEN LET current == DictGet(data, key, JNull) IN
              IF IsNone(current) THEN Ok(default)
              ELSE safe_get_script(current, Tail(keys), default)
         ELSE IF IsList(data) /\ Len(data.a) > 0
         THEN IF IsIntKey(key)
              THEN IF key.i < Len(data.a)
                   THEN LET got == ListIndex(data.a, key.i) IN
                        IF got.exc # "" THEN got
                        ELSE safe_get_script(got.v, Tail(keys), default)
                   ELSE Ok(default)
              ELSE Ok(default)
         ELSE Ok(default)

(***************************************************************************)
(* _last_segment / extract_chassis_id (the same code under two names).     *)
(***************************************************************************)
RECURSIVE rstrip(_)
\* str.rstrip("/")
rstrip(s) ==
    IF s # <<>> /\ s[Len(s)] = "/" THEN rstrip(SubSeq(s, 1, Len(s) - 1)) ELSE s

RECURSIVE split(_)
\* str.split("/"): never an empty list, "" gives [""].
split(s) ==
    IF \A i \in 1..Len(s) : s[i] # "/" THEN <<s>>
    ELSE LET i == CHOOSE j \in 1..Len(s) :
                      s[j] = "/" /\ \A k \in 1..(j - 1) : s[k] # "/"
         IN <<SubSeq(s, 1, i - 1)>> \o split(SubSeq(s, i + 1, Len(s)))

_last_segment(odata_id) ==
    IF ~Truthy(odata_id) THEN Ok(JNull)
    ELSE IF ~IsStr(odata_id) THEN Raise("AttributeError")
    ELSE LET parts == split(rstrip(odata_id.s)) IN
         Ok(IF parts # <<>> THEN JStr(parts[Len(parts)]) ELSE JNull)

extract_chassis_id(member_ref) ==
    IF ~Truthy(member_ref) THEN Ok(JNull)
    ELSE IF ~IsStr(member_ref) THEN Raise("AttributeError")
    ELSE LET parts == split(rstrip(member_ref.s)) IN
         Ok(IF parts # <<>> THEN JStr(parts[Len(parts)]) ELSE JNull)

(***************************************************************************)
(* Python string and iteration helpers used by the walks.                  *)
(***************************************************************************)
\* The characters of the model's strings, in code point order.
CodePoints ==
    <<"/", "1", "2", "7", "A", "D", "F", "I", "N", "O", "R",
      "a", "d", "f", "i", "n", "o", "r">>

Ord(c) == CHOOSE i \in 1..Len(CodePoints) : CodePoints[i] = c

UpperToLower ==
    [c \in {"A", "D", "F", "I", "N", "O", "R"} |->
        CASE c = "A" -> "a" [] c = "D" -> "d" [] c = "F" -> "f" [] c = "I" -> "i"
          [] c = "N" -> "n" [] c = "O" -> "o" [] c = "R" -> "r"]

\* str.lower()
lower(s) == [i \in 1..Len(s) |-> IF s[i] \in DOMAIN UpperToLower THEN UpperToLower[s[i]] ELSE s[i]]

RECURSIVE StrLess(_, _)
\* Python's order of two str values: s < u.
StrLess(s, u) ==
    IF u = <<>> THEN FALSE
    ELSE IF s = <<>> THEN TRUE
    ELSE IF Head(s) # Head(u) THEN Ord(Head(s)) < Ord(Head(u))
    ELSE StrLess(Tail(s), Tail(u))

RECURSIVE sorted(_)
\* sorted(list of str): a stable insertion sort.
sorted(xs) ==
    IF xs = <<>> THEN <<>>
    ELSE LET rest == sorted(SubSeq(xs, 1, Len(xs) - 1))
             x == xs[Len(xs)]
             n == Cardinality({i \in 1..Len(rest) : ~StrLess(x.s, rest[i].s)})
         IN SubSeq(rest, 1, n) \o <<x>> \o SubSeq(rest, n + 1, Len(rest))

RECURSIVE KeysInOrder(_)
KeysInOrder(S) ==
    IF S = {} THEN <<>>
    ELSE LET k == CHOOSE x \in S : TRUE IN <<JStr(<<k>>)>> \o KeysInOrder(S \ {k})

\* `for x in v`: the items a for loop draws from a value.  A dict yields its
\* keys (each a str, written here as one chunk), a str its characters, and
\* None or a number is not iterable.
Iter(v) ==
    CASE v.t = "arr" -> [exc |-> "", items |-> v.a]
      [] v.t = "obj" -> [exc |-> "", items |-> KeysInOrder(DOMAIN v.o)]
      [] v.t = "str" -> [exc |-> "", items |-> [i \in 1..Len(v.s) |-> JStr(<<v.s[i]>>)]]
      [] OTHER -> [exc |-> "TypeError", items |-> <<>>]

(***************************************************************************)
(* The snapshot of one host: a map from relative paths to files.  A path   *)
(* is the sequence of its components, a component a str.                   *)
(***************************************************************************)
Missing == [st |-> "missing"]

Unreadable == [st |-> "OSError"]

BadJson == [st |-> "JSONDecodeError"]

BadText == [st |-> "UnicodeDecodeError"]

File(doc) == [st |-> "ok", doc |-> doc]

FileAt(path) == IF path \in DOMAIN fs THEN fs[path] ELSE Missing

ChassisJson == <<<<"Chassis.json">>>>

IndexJson == <<<<"index.json">>>>

ChassisDetailPath(id) == <<<<"Chassis">>, id \o <<".json">>>>

ThermalPath(id) == <<<<"Chassis">>, id, <<"Thermal.json">>>>

PowerPath(id) == <<<<"Chassis">>, id, <<"Power.json">>>>

\* _read_json (device type, temperature, RAID): None when the file is missing
\* and on any exception.
_read_json(path) ==
    IF FileAt(path).st = "ok" THEN Ok(FileAt(path).doc) ELSE Ok(JNull)

\* The inline loading of the fan and power reports: exists(), then open and
\* json.load under `except (json.JSONDecodeError, IOError)`.  ok is FALSE when
\* the file is skipped.
load_json(path) ==
    LET f == FileAt(path) IN
    CASE f.st = "ok" -> [exc |-> "", ok |-> TRUE, doc |-> f.doc]
      [] f.st \in {"missing", "OSError", "JSONDecodeError"} ->
            [exc |-> "", ok |-> FALSE, doc |-> JNull]
      [] OTHER -> [exc |-> f.st, ok |-> FALSE, doc |-> JNull]

(***************************************************************************)
(* The walks of one host.  fn is the function running, pc its position:    *)
(* "call" before its first statement, "loop" at the head of its member     *)
(* loop (idx is the next member), "done" once it returned result, "raised" *)
(* once an exception left it (ret holds the exception).                    *)
(***************************************************************************)
Msg(text) == [text |-> text]

NA == JStr(<<"N", "A">>)

Str_Unknown == JStr(<<"U", "n", "k", "n", "o", "w", "n">>)

Str_Dash == JStr(<<"-">>)

OdataId == <<KName("@odata.id")>>

EmptyList == JArr(<<>>)

\* What a piece of a function does to the walk: k is "enter" (the head of the
\* loop over items is reached), "next" (`continue`, or the end of the loop
\* body), "return" (`return result`) or "throw" (an exception leaves the
\* function and no record is returned).
EnterLoop(items, res, l, rd) ==
    [k |-> "enter", items |-> items, result |-> res, loc |-> l, reads |-> rd, exc |-> ""]

NextMember(res, l, rd) ==
    [k |-> "next", items |-> <<>>, result |-> res, loc |-> l, reads |-> rd, exc |-> ""]

Return(res, rd) ==
    [k |-> "return", items |-> <<>>, result |-> res, loc |-> JNull, reads |-> rd, exc |-> ""]

Throw(e, rd) ==
    [k |-> "throw", items |-> <<>>, result |-> JNull, loc |-> JNull, reads |-> rd, exc |-> e]

\* The step of the walk that an outcome describes.
Apply(out) ==
    /\ pc' = CASE out.k = "return" -> "done" [] out.k = "throw" -> "raised" [] OTHER -> "loop"
    /\ members' = IF out.k = "enter" THEN out.items ELSE members
    /\ idx' = IF out.k = "enter" THEN 1 ELSE IF out.k = "next" THEN idx + 1 ELSE idx
    /\ result' = IF out.k = "throw" THEN result ELSE out.result
    /\ loc' = IF out.k \in {"enter", "next"} THEN out.loc ELSE loc
    /\ reads' = out.reads
    /\ ret' = IF out.k = "throw" THEN Raise(out.exc) ELSE ret
    /\ UNCHANGED <<fs, fn, arg>>

AtCall(name) == fn = name /\ pc = "call"

AtMember(name) == fn = name /\ pc = "loop" /\ idx <= Len(members)

AtLoopEnd(name) == fn = name /\ pc = "loop" /\ idx > Len(members)

(***************************************************************************)
(* report_device_type.py: get_device_information                           *)
(***************************************************************************)
get_device_information_begin ==
    LET rd == Append(reads, ChassisJson)
        chassis_data == _read_json(ChassisJson)
        mem == Or(safe_get(chassis_data.v, <<KName("Members")>>, EmptyList), EmptyList)
        res == [chassis_info |-> <<>>, message |-> Msg("")]
    IN IF chassis_data.exc # "" THEN Throw(chassis_data.exc, rd)
       ELSE IF ~Truthy(chassis_data.v)
       THEN Return([res EXCEPT !.message = Msg("No chassis info exposed via Redfish")], rd)
       ELSE IF ~Truthy(mem)
       THEN Return([res EXCEPT !.message = Msg("No chassis members found")], rd)
       ELSE IF Iter(mem).exc # "" THEN Throw(Iter(mem).exc, rd)
       ELSE EnterLoop(Iter(mem).items, res, loc, rd)

Begin_get_device_information ==
    /\ AtCall("get_device_information")
    /\ \E out \in {get_device_information_begin} : Apply(out)

\* Mutant: a member whose detail file is unavailable ends the walk of the host.
get_device_information_member_aborting ==
    LET member == members[idx]
        chassis_id == _last_segment(safe_get(member, OdataId, JNull))
    IN IF chassis_id.exc # "" THEN Throw(chassis_id.exc, reads)
       ELSE IF ~Truthy(chassis_id.v) THEN NextMember(result, loc, reads)
       ELSE LET path == ChassisDetailPath(chassis_id.v.s)
                rd == Append(reads, path)
                chassis_detail == _read_json(path)
                d == chassis_detail.v
                chassis_info ==
                    [chassis_id |-> chassis_id.v,
                     chassis_type |-> Or(safe_get(d, <<KName("ChassisType")>>, JNull), Str_Unknown),
                     manufacturer |-> Or(safe_get(d, <<KName("Manufacturer")>>, JNull), Str_Unknown),
                     model |-> Or(safe_get(d, <<KName("Model")>>, JNull), Str_Unknown),
                     serial |-> Or(safe_get(d, <<KName("SerialNumber")>>, JNull), Str_Unknown)]
            IN IF chassis_detail.exc # "" THEN Throw(chassis_detail.exc, rd)
               ELSE IF ~Truthy(d)
               THEN Return([result EXCEPT !.message = Msg("No chassis details available")], rd)
               ELSE NextMember([result EXCEPT !.chassis_info = Append(@, chassis_info)],
                               loc, rd)

get_device_information_member ==
    LET member == members[idx]
        chassis_id == _last_segment(safe_get(member, OdataId, JNull))
    IN IF chassis_id.exc # "" THEN Throw(chassis_id.exc, reads)
       ELSE IF ~Truthy(chassis_id.v) THEN NextMember(result, loc, reads)
       ELSE LET path == ChassisDetailPath(chassis_id.v.s)
                rd == Append(reads, path)
                chassis_detail == _read_json(path)
                d == chassis_detail.v
                chassis_info ==
                    [chassis_id |-> chassis_id.v,
                     chassis_type |-> Or(safe_get(d, <<KName("ChassisType")>>, JNull), Str_Unknown),
                     manufacturer |-> Or(safe_get(d, <<KName("Manufacturer")>>, JNull), Str_Unknown),
                     model |-> Or(safe_get(d, <<KName("Model")>>, JNull), Str_Unknown),
                     serial |-> Or(safe_get(d, <<KName("SerialNumber")>>, JNull), Str_Unknown)]
            IN IF chassis_detail.exc # "" THEN Throw(chassis_detail.exc, rd)
               ELSE IF ~Truthy(d) THEN NextMember(result, loc, rd)
               ELSE NextMember([result EXCEPT !.chassis_info = Append(@, chassis_info)],
                               loc, rd)

Step_get_device_information ==
    /\ AtMember("get_device_information")
    /\ \E out \in {get_device_information_member} : Apply(out)

get_device_information_end ==
    LET n == Len(result.chassis_info)
        summary == [i \in 1..n |-> result.chassis_info[i].chassis_type]
    IN IF n > 0
       THEN Return([result EXCEPT !.message =
                       [text |-> "found {n} chassis: {chassis_summary}",
                        n |-> n, chassis_summary |-> summary]], reads)
       ELSE Return([result EXCEPT !.message = Msg("No chassis details available")], reads)

Return_get_device_information ==
    /\ AtLoopEnd("get_device_information")
    /\ \E out \in {get_device_information_end} : Apply(out)

(***************************************************************************)
(* report_temperature.py: get_temperature_information                      *)
(***************************************************************************)
\* A variant whose record starts from the sensor list of the record collected
\* before it, as a list shared between calls would.
get_temperature_information_begin_shared ==
    LET rd == Append(reads, ChassisJson)
        chassis_data == _read_json(ChassisJson)
        mem == Or(safe_get(chassis_data.v, <<KName("Members")>>, EmptyList), EmptyList)
        shared == IF arg # JNull /\ arg.all_results # <<>>
                  THEN arg.all_results[Len(arg.all_results)].record.temperatures
                  ELSE <<>>
        res == [power_states |-> <<>>, temperatures |-> shared, message |-> Msg("")]
    IN IF chassis_data.exc # "" THEN Throw(chassis_data.exc, rd)
       ELSE IF ~Truthy(chassis_data.v)
       THEN Return([res EXCEPT !.message = Msg("No chassis info exposed via Redfish")], rd)
       ELSE IF ~Truthy(mem)
       THEN Return([res EXCEPT !.message = Msg("No chassis members exposed via Redfish")], rd)
       ELSE IF Iter(mem).exc # "" THEN Throw(Iter(mem).exc, rd)
       ELSE EnterLoop(Iter(mem).items, res, loc, rd)

get_temperature_information_begin ==
    LET rd == Append(reads, ChassisJson)
        chassis_data == _read_json(ChassisJson)
        mem == Or(safe_get(chassis_data.v, <<KName("Members")>>, EmptyList), EmptyList)
        res == [power_states |-> <<>>, temperatures |-> <<>>, message |-> Msg("")]
    IN IF chassis_data.exc # "" THEN Throw(chassis_data.exc, rd)
       ELSE IF ~Truthy(chassis_data.v)
       THEN Return([res EXCEPT !.message = Msg("No chassis info exposed via Redfish")], rd)
       ELSE IF ~Truthy(mem)
       THEN Return([res EXCEPT !.message = Msg("No chassis members exposed via Redfish")], rd)
       ELSE IF Iter(mem).exc # "" THEN Throw(Iter(mem).exc, rd)
       ELSE EnterLoop(Iter(mem).items, res, loc, rd)

Begin_get_temperature_information ==
    /\ AtCall("get_temperature_information")
    /\ \E out \in {get_temperature_information_begin} : Apply(out)

\* One temperature sensor of a Thermal document.
sensor_info(chassis_id, temp_sensor) ==
    [chassis_id |-> chassis_id,
     name |-> safe_get(temp_sensor, <<KName("Name")>>, Str_Dash),
     reading |-> safe_get(temp_sensor, <<KName("ReadingCelsius")>>, NA),
     physical_context |-> safe_get(temp_sensor, <<KName("PhysicalContext")>>, Str_Dash)]

get_temperature_information_member ==
    LET member == members[idx]
        chassis_id == _last_segment(safe_get(member, OdataId, JNull))
    IN IF chassis_id.exc # "" THEN Throw(chassis_id.exc, reads)
       ELSE IF ~Truthy(chassis_id.v) THEN NextMember(result, loc, reads)
       ELSE LET dpath == ChassisDetailPath(chassis_id.v.s)
                tpath == ThermalPath(chassis_id.v.s)
                chassis_detail == _read_json(dpath)
                power_state == safe_get(chassis_detail.v, <<KName("PowerState")>>, NA)
                has_state == Truthy(chassis_detail.v) /\ power_state # NA
                res1 == IF has_state /\ IsStr(power_state)
                        THEN [result EXCEPT !.power_states =
                                 Append(@, JStr(lower(power_state.s)))]
                        ELSE result
                thermal_data == _read_json(tpath)
                temperatures ==
                    Or(safe_get(thermal_data.v, <<KName("Temperatures")>>, EmptyList),
                       EmptyList)
                sensors == Iter(temperatures).items
                rd1 == Append(reads, dpath)
                rd2 == Append(rd1, tpath)
            IN IF chassis_detail.exc # "" THEN Throw(chassis_detail.exc, rd1)
               ELSE IF has_state /\ ~IsStr(power_state) THEN Throw("AttributeError", rd1)
               ELSE IF thermal_data.exc # "" THEN Throw(thermal_data.exc, rd2)
               ELSE IF ~Truthy(thermal_data.v) THEN NextMember(res1, loc, rd2)
               ELSE IF Iter(temperatures).exc # "" THEN Throw(Iter(temperatures).exc, rd2)
               ELSE NextMember(
                        [res1 EXCEPT !.temperatures =
                            @ \o [i \in 1..Len(sensors) |->
                                     sensor_info(chassis_id.v, sensors[i])]],
                        loc, rd2)

Step_get_temperature_information ==
    /\ AtMember("get_temperature_information")
    /\ \E out \in {get_temperature_information_member} : Apply(out)

get_temperature_information_end ==
    LET n == Len(result.temperatures) IN
    IF n > 0
    THEN Return([result EXCEPT !.message =
                    [text |-> "Found {n} temperature sensor(s)", n |-> n]], reads)
    ELSE Return([result EXCEPT !.message = Msg("No temperature sensors found")], reads)

Return_get_temperature_information ==
    /\ AtLoopEnd("get_temperature_information")
    /\ \E out \in {get_temperature_information_end} : Apply(out)

(***************************************************************************)
(* report_fans.py: get_fan_metrics                                         *)
(***************************************************************************)
get_fan_metrics_begin ==
    LET rd == Append(reads, ChassisJson)
        chassis_data == load_json(ChassisJson)
        mem == DictGet(chassis_data.doc, KName("Members"), EmptyList)
        res == [power_states |-> <<>>, fans |-> <<>>]
    IN IF chassis_data.exc # "" THEN Throw(chassis_data.exc, rd)
       ELSE IF ~chassis_data.ok THEN Return(res, rd)
       ELSE IF ~IsDict(chassis_data.doc) THEN Throw("AttributeError", rd)
       ELSE IF ~Truthy(mem) THEN Return(res, rd)
       ELSE IF Iter(mem).exc # "" THEN Throw(Iter(mem).exc, rd)
       ELSE EnterLoop(Iter(mem).items, res, loc, rd)

Begin_get_fan_metrics ==
    /\ AtCall("get_fan_metrics")
    /\ \E out \in {get_fan_metrics_begin} : Apply(out)

\* One entry of the Fans array of a Thermal document.
fan_info(fan) ==
    [name |-> safe_get(fan, <<KName("Name")>>, NA),
     reading_rpm |-> safe_get(fan, <<KName("Reading")>>, NA)]

get_fan_metrics_member ==
    LET member == members[idx]
        chassis_id == extract_chassis_id(DictGet(member, OdataId[1], JNull))
    IN IF ~IsDict(member) THEN Throw("AttributeError", reads)
       ELSE IF chassis_id.exc # "" THEN Throw(chassis_id.exc, reads)
       ELSE IF ~Truthy(chassis_id.v) THEN NextMember(result, loc, reads)
       ELSE LET dpath == ChassisDetailPath(chassis_id.v.s)
                tpath == ThermalPath(chassis_id.v.s)
                rd1 == Append(reads, dpath)
                rd2 == Append(rd1, tpath)
                chassis_detail == load_json(dpath)
                power_state == safe_get(chassis_detail.doc, <<KName("PowerState")>>, NA)
                res1 == IF power_state # NA /\ IsStr(power_state)
                        THEN [result EXCEPT !.power_states =
                                 Append(@, JStr(lower(power_state.s)))]
                        ELSE result
                thermal_ref == DictGet(chassis_detail.doc, KName("Thermal"), JNull)
                thermal_data == load_json(tpath)
                fans == DictGet(thermal_data.doc, KName("Fans"), EmptyList)
                items == Iter(fans).items
            IN IF chassis_detail.exc # "" THEN Throw(chassis_detail.exc, rd1)
               ELSE IF ~chassis_detail.ok THEN NextMember(result, loc, rd1)
               ELSE IF power_state # NA /\ ~IsStr(power_state)
               THEN Throw("AttributeError", rd1)
               ELSE IF ~IsDict(chassis_detail.doc) THEN Throw("AttributeError", rd1)
               ELSE IF ~(Truthy(thermal_ref) /\ IsDict(thermal_ref))
               THEN NextMember(res1, loc, rd1)
               ELSE IF thermal_data.exc # "" THEN Throw(thermal_data.exc, rd2)
               ELSE IF ~thermal_data.ok THEN NextMember(res1, loc, rd2)
               ELSE IF ~IsDict(thermal_data.doc) THEN Throw("AttributeError", rd2)
               ELSE IF Iter(fans).exc # "" THEN Throw(Iter(fans).exc, rd2)
               ELSE NextMember(
                        [res1 EXCEPT !.fans =
                            @ \o [i \in 1..Len(items) |-> fan_info(items[i])]],
                        loc, rd2)

Step_get_fan_metrics ==
    /\ AtMember("get_fan_metrics")
    /\ \E out \in {get_fan_metrics_member} : Apply(out)

get_fan_metrics_end ==
    Return(result, reads)

Return_get_fan_metrics ==
    /\ AtLoopEnd("get_fan_metrics")
    /\ \E out \in {get_fan_metrics_end} : Apply(out)

(***************************************************************************)
(* report_power.py and script.py: get_power_metrics.  The two functions    *)
(* are the same statements, each over the safe_get of its own module.    *)
(***************************************************************************)
\* The safe_get of the module that defines the function `name`.
sg(name, data, keys, default) ==
    IF name = "script.get_power_metrics"
    THEN safe_get_script(data, keys, default)
    ELSE Ok(safe_get(data, keys, default))

power_begin(name) ==
    LET rd0 == Append(reads, IndexJson)
        rd1 == Append(rd0, ChassisJson)
        index_data == load_json(IndexJson)
        version == IF index_data.ok
                   THEN sg(name, index_data.doc, <<KName("RedfishVersion")>>, NA)
                   ELSE Ok(NA)
        chassis_data == load_json(ChassisJson)
        mem == DictGet(chassis_data.doc, KName("Members"), EmptyList)
        res == [redfish_version |-> version.v,
                power_states |-> <<>>,
                PowerConsumedWatts |-> NA,
                MinConsumedWatts |-> NA,
                MaxConsumedWatts |-> NA,
                AverageConsumedWatts |-> NA]
        l == [power_states |-> <<>>, power_metrics_found |-> FALSE]
    IN IF index_data.exc # "" THEN Throw(index_data.exc, rd0)
       ELSE IF version.exc # "" THEN Throw(version.exc, rd0)
       ELSE IF chassis_data.exc # "" THEN Throw(chassis_data.exc, rd1)
       ELSE IF ~chassis_data.ok THEN Return(res, rd1)
       ELSE IF ~IsDict(chassis_data.doc) THEN Throw("AttributeError", rd1)
       ELSE IF ~Truthy(mem) THEN Return(res, rd1)
       ELSE IF Iter(mem).exc # "" THEN Throw(Iter(mem).exc, rd1)
       ELSE EnterLoop(Iter(mem).items, res, l, rd1)

\* power_control[0] for a non-empty list or str.
FirstItem(v) == IF IsList(v) THEN v.a[1] ELSE JStr(<<v.s[1]>>)

\* Mutant of power_step: the test of power_metrics_found is dropped, so every
\* chassis with Power data overwrites the metrics.
power_step_overwriting(name) ==
    LET member == members[idx]
        chassis_id == extract_chassis_id(DictGet(member, OdataId[1], JNull))
    IN IF ~IsDict(member) THEN Throw("AttributeError", reads)
       ELSE IF chassis_id.exc # "" THEN Throw(chassis_id.exc, reads)
       ELSE IF ~Truthy(chassis_id.v) THEN NextMember(result, loc, reads)
       ELSE LET dpath == ChassisDetailPath(chassis_id.v.s)
                ppath == PowerPath(chassis_id.v.s)
                rd1 == Append(reads, dpath)
                rd2 == Append(rd1, ppath)
                chassis_detail == load_json(dpath)
                power_state == sg(name, chassis_detail.doc, <<KName("PowerState")>>, NA)
                l1 == IF power_state.v # NA /\ IsStr(power_state.v)
                      THEN [loc EXCEPT !.power_states =
                               Append(@, JStr(lower(power_state.v.s)))]
                      ELSE loc
                power_ref == DictGet(chassis_detail.doc, KName("Power"), JNull)
                power_data == load_json(ppath)
                power_control == DictGet(power_data.doc, KName("PowerControl"), EmptyList)
                pc0 == FirstItem(power_control)
                consumed == sg(name, pc0, <<KName("PowerConsumedWatts")>>, NA)
                min == sg(name, pc0, <<KName("PowerMetrics"), KName("MinConsumedWatts")>>, NA)
                max == sg(name, pc0, <<KName("PowerMetrics"), KName("MaxConsumedWatts")>>, NA)
                avg == sg(name, pc0, <<KName("PowerMetrics"), KName("AverageConsumedWatts")>>, NA)
            IN IF chassis_detail.exc # "" THEN Throw(chassis_detail.exc, rd1)
               ELSE IF ~chassis_detail.ok THEN NextMember(result, loc, rd1)
               ELSE IF power_state.exc # "" THEN Throw(power_state.exc, rd1)
               ELSE IF power_state.v # NA /\ ~IsStr(power_state.v)
               THEN Throw("AttributeError", rd1)
               ELSE IF ~IsDict(chassis_detail.doc) THEN Throw("AttributeError", rd1)
               ELSE IF ~(Truthy(power_ref) /\ IsDict(power_ref))
               THEN NextMember(result, l1, rd1)
               ELSE IF power_data.exc # "" THEN Throw(power_data.exc, rd2)
               ELSE IF ~power_data.ok THEN NextMember(result, l1, rd2)
               ELSE IF ~IsDict(power_data.doc) THEN Throw("AttributeError", rd2)
               ELSE IF ~Truthy(power_control) THEN NextMember(result, l1, rd2)
               ELSE IF power_control.t = "num" THEN Throw("TypeError", rd2)
               ELSE IF IsDict(power_control) THEN Throw("KeyError", rd2)
               ELSE IF consumed.exc # "" THEN Throw(consumed.exc, rd2)
               ELSE IF min.exc # "" THEN Throw(min.exc, rd2)
               ELSE IF max.exc # "" THEN Throw(max.exc, rd2)
               ELSE IF avg.exc # "" THEN Throw(avg.exc, rd2)
               ELSE NextMember(
                        [result EXCEPT !.PowerConsumedWatts = consumed.v,
                                       !.MinConsumedWatts = min.v,
                                       !.MaxConsumedWatts = max.v,
                                       !.AverageConsumedWatts = avg.v],
                        [l1 EXCEPT !.power_metrics_found = TRUE], rd2)

power_step(name) ==
    LET member == members[idx]
        chassis_id == extract_chassis_id(DictGet(member, OdataId[1], JNull))
    IN IF ~IsDict(member) THEN Throw("AttributeError", reads)
       ELSE IF chassis_id.exc # "" THEN Throw(chassis_id.exc, reads)
       ELSE IF ~Truthy(chassis_id.v) THEN NextMember(result, loc, reads)
       ELSE LET dpath == ChassisDetailPath(chassis_id.v.s)
                ppath == PowerPath(chassis_id.v.s)
                rd1 == Append(reads, dpath)
                rd2 == Append(rd1, ppath)
                chassis_detail == load_json(dpath)
                power_state == sg(name, chassis_detail.doc, <<KName("PowerState")>>, NA)
                l1 == IF power_state.v # NA /\ IsStr(power_state.v)
                      THEN [loc EXCEPT !.power_states =
                               Append(@, JStr(lower(power_state.v.s)))]
                      ELSE loc
                power_ref == DictGet(chassis_detail.doc, KName("Power"), JNull)
                power_data == load_json(ppath)
                power_control == DictGet(power_data.doc, KName("PowerControl"), EmptyList)
                pc0 == FirstItem(power_control)
                consumed == sg(name, pc0, <<KName("PowerConsumedWatts")>>, NA)
                min == sg(name, pc0, <<KName("PowerMetrics"), KName("MinConsumedWatts")>>, NA)
                max == sg(name, pc0, <<KName("PowerMetrics"), KName("MaxConsumedWatts")>>, NA)
                avg == sg(name, pc0, <<KName("PowerMetrics"), KName("AverageConsumedWatts")>>, NA)
            IN IF chassis_detail.exc # "" THEN Throw(chassis_detail.exc, rd1)
               ELSE IF ~chassis_detail.ok THEN NextMember(result, loc, rd1)
               ELSE IF power_state.exc # "" THEN Throw(power_state.exc, rd1)
               ELSE IF power_state.v # NA /\ ~IsStr(power_state.v)
               THEN Throw("AttributeError", rd1)
               ELSE IF loc.power_metrics_found THEN NextMember(result, l1, rd1)
               ELSE IF ~IsDict(chassis_detail.doc) THEN Throw("AttributeError", rd1)
               ELSE IF ~(Truthy(power_ref) /\ IsDict(power_ref))
               THEN NextMember(result, l1, rd1)
               ELSE IF power_data.exc # "" THEN Throw(power_data.exc, rd2)
               ELSE IF ~power_data.ok THEN NextMember(result, l1, rd2)
               ELSE IF ~IsDict(power_data.doc) THEN Throw("AttributeError", rd2)
               ELSE IF ~Truthy(power_control) THEN NextMember(result, l1, rd2)
               ELSE IF power_control.t = "num" THEN Throw("TypeError", rd2)
               ELSE IF IsDict(power_control) THEN Throw("KeyError", rd2)
               ELSE IF consumed.exc # "" THEN Throw(consumed.exc, rd2)
               ELSE IF min.exc # "" THEN Throw(min.exc, rd2)
               ELSE IF max.exc # "" THEN Throw(max.exc, rd2)
               ELSE IF avg.exc # "" THEN Throw(avg.exc, rd2)
               ELSE NextMember(
                        [result EXCEPT !.PowerConsumedWatts = consumed.v,
                                       !.MinConsumedWatts = min.v,
                                       !.MaxConsumedWatts = max.v,
                                       !.AverageConsumedWatts = avg.v],
                        [l1 EXCEPT !.power_metrics_found = TRUE], rd2)

power_return(name) ==
    Return([result EXCEPT !.power_states = sorted(loc.power_states)], reads)

Begin_get_power_metrics ==
    /\ AtCall("get_power_metrics")
    /\ \E out \in {power_begin("get_power_metrics")} : Apply(out)

Step_get_power_metrics ==
    /\ AtMember("get_power_metrics")
    /\ \E out \in {power_step("get_power_metrics")} : Apply(out)

Return_get_power_metrics ==
    /\ AtLoopEnd("get_power_metrics")
    /\ \E out \in {power_return("get_power_metrics")} : Apply(out)

Begin_script_get_power_metrics ==
    /\ AtCall("script.get_power_metrics")
    /\ \E out \in {power_begin("script.get_power_metrics")} : Apply(out)

Step_script_get_power_metrics ==
    /\ AtMember("script.get_power_metrics")
    /\ \E out \in {power_step("script.get_power_metrics")} : Apply(out)

Return_script_get_power_metrics ==
    /\ AtLoopEnd("script.get_power_metrics")
    /\ \E out \in {power_return("script.get_power_metrics")} : Apply(out)

(***************************************************************************)
(* report_raid.py: get_raid_information                                    *)
(***************************************************************************)
SystemsJson == <<<<"Systems.json">>>>

StorageCollectionPath(system_id) == <<<<"Systems">>, system_id, <<"Storage.json">>>>

StoragesCollectionPath(system_id) == <<<<"Systems">>, system_id, <<"Storages.json">>>>

StoragePath(system_id, storage_dir_name, storage_id) ==
    <<<<"Systems">>, system_id, <<storage_dir_name>>, storage_id \o <<".json">>>>

VolumesPath(system_id, storage_dir_name, storage_id) ==
    <<<<"Systems">>, system_id, <<storage_dir_name>>, storage_id, <<"Volumes.json">>>>

\* The volume detail path is composed with the literal "Storage".
VolumePath(system_id, storage_dir_name, storage_id, vol_id) ==
    <<<<"Systems">>, system_id, <<"Storage">>, storage_id, <<"Volumes">>,
      vol_id \o <<".json">>>>

Str_Controller == JStr(<<"C", "o", "n", "t", "r", "o", "l", "l", "e", "r">>)

\* `sub in s` for two str values.
Contains(s, sub) ==
    \E i \in 1..(Len(s) - Len(sub) + 1) : SubSeq(s, i, i + Len(sub) - 1) = sub

HasRaid(s) == Contains(lower(s), <<"r", "a", "i", "d">>)

TwoPow14 == 128 * 128

\* round(num_bytes / (1024 ** 3), 2) in hundredths of a GiB, rounding half to
\* even; the quotient num_bytes * 25 / 2^28 is taken in two 14-bit halves.
GibHundredths(num_bytes) ==
    LET q == num_bytes \div (TwoPow14 * TwoPow14)
        r == num_bytes % (TwoPow14 * TwoPow14)
        b == 25 * (r \div TwoPow14)
        c == 25 * (r % TwoPow14)
        m == b + (c \div TwoPow14)
        whole == 25 * q + (m \div TwoPow14)
        rem == (m % TwoPow14) * TwoPow14 + (c % TwoPow14)
        half == (TwoPow14 * TwoPow14) \div 2
    IN IF rem > half \/ (rem = half /\ whole % 2 = 1) THEN whole + 1 ELSE whole

\* A Python float with two decimals, held in hundredths.
JFloat(h) == [t |-> "float", h |-> h]

\* A Python int too wide for one integer of the model: hi * 2**30 + lo, with
\* hi > 0 and 0 <= lo < 2**30.
JBig(hi, lo) == [t |-> "big", hi |-> hi, lo |-> lo]

\* Mutant of _bytes_to_gib: a value that is no int gives 0.0 instead of None.
bytes_to_gib_zero_default(num_bytes) ==
    CASE num_bytes.t = "num" -> JFloat(GibHundredths(num_bytes.n))
      [] num_bytes.t = "big" -> JFloat(100 * num_bytes.hi + GibHundredths(num_bytes.lo))
      [] OTHER -> JFloat(0)

_bytes_to_gib(num_bytes) ==
    CASE num_bytes.t = "num" -> JFloat(GibHundredths(num_bytes.n))
      [] num_bytes.t = "big" -> JFloat(100 * num_bytes.hi + GibHundredths(num_bytes.lo))
      [] OTHER -> JNull

\* main: the capacity column of a volume line.
capacity_text(capacity_gib) ==
    IF ~IsNone(capacity_gib)
    THEN [text |-> "{capacity_gib} GiB", capacity_gib |-> capacity_gib]
    ELSE Msg("NA")

\* One entry of StorageControllers: its record, whether it marks the host
\* RAID-capable, and the exception of a .lower() on a value that is no str.
controller(ctrl) ==
    LET supported == Or(safe_get(ctrl, <<KName("SupportedRAIDTypes")>>, EmptyList), EmptyList)
        name == Or(safe_get(ctrl, <<KName("Name")>>, JNull),
                   Or(safe_get(ctrl, <<KName("Model")>>, JNull), Str_Controller))
        model == safe_get(ctrl, <<KName("Model")>>, JNull)
        description == Or(safe_get(ctrl, <<KName("Description")>>, JNull), JStr(<<>>))
        by_types == IsList(supported) /\ Len(supported.a) > 0
        by_name == IsStr(name) /\ HasRaid(name.s)
        by_description == IsStr(description) /\ HasRaid(description.s)
    IN [exc |-> IF by_types THEN ""
                ELSE IF ~IsStr(name) THEN "AttributeError"
                ELSE IF by_name THEN ""
                ELSE IF ~IsStr(description) THEN "AttributeError"
                ELSE "",
        info |-> [name |-> name, model |-> model, supported_raid_types |-> supported],
        capable |-> by_types \/ by_name \/ by_description]

RECURSIVE drive_ids(_)
\* The identifiers of the drive links of a volume, or the exception of one.
drive_ids(links) ==
    IF links = <<>> THEN [exc |-> "", ids |-> <<>>]
    ELSE LET d_id == _last_segment(safe_get(Head(links), OdataId, JNull))
             rest == drive_ids(Tail(links))
         IN IF d_id.exc # "" THEN [exc |-> d_id.exc, ids |-> <<>>]
            ELSE IF rest.exc # "" THEN rest
            ELSE [exc |-> "", ids |-> IF Truthy(d_id.v) THEN <<d_id.v>> \o rest.ids ELSE rest.ids]

RECURSIVE volumes_loop(_, _, _, _, _)
\* The loop over the members of one Volumes collection; acc carries the
\* volumes list, the raid_detected flag and the reads so far.
volumes_loop(vmems, system_id, storage_dir_name, storage_id, acc) ==
    IF vmems = <<>> \/ acc.exc # "" THEN acc
    ELSE LET vol_id == _last_segment(safe_get(Head(vmems), OdataId, JNull))
             path == VolumePath(system_id, storage_dir_name, storage_id, vol_id.v.s)
             vol == _read_json(path)
             vol_raid == safe_get(vol.v, <<KName("RAIDType")>>, JNull)
             vol_cap_bytes == safe_get(vol.v, <<KName("CapacityBytes")>>, JNull)
             links == Or(safe_get(vol.v, <<KName("Links"), KName("Drives")>>, EmptyList),
                         EmptyList)
             drives == IF Iter(links).exc # "" THEN [exc |-> Iter(links).exc, ids |-> <<>>]
                       ELSE drive_ids(Iter(links).items)
             rd == Append(acc.reads, path)
             volume == [name |-> safe_get(vol.v, <<KName("Name")>>, JNull),
                        raid_type |-> vol_raid,
                        capacity_bytes |-> vol_cap_bytes,
                        capacity_gib |-> _bytes_to_gib(vol_cap_bytes),
                        drives |-> drives.ids]
             next ==
                 IF vol_id.exc # "" THEN [acc EXCEPT !.exc = vol_id.exc]
                 ELSE IF ~Truthy(vol_id.v) THEN acc
                 ELSE IF vol.exc # "" THEN [acc EXCEPT !.exc = vol.exc, !.reads = rd]
                 ELSE IF ~Truthy(vol.v) THEN [acc EXCEPT !.reads = rd]
                 ELSE IF drives.exc # "" THEN [acc EXCEPT !.exc = drives.exc, !.reads = rd]
                 ELSE [exc |-> "",
                       volumes |-> Append(acc.volumes, volume),
                       raid_detected |-> ~IsNone(vol_raid),
                       reads |-> rd]
         IN volumes_loop(Tail(vmems), system_id, storage_dir_name, storage_id, next)

NoSystems == Msg("No systems info exposed via Redfish")

NoStorage == Msg("No storage info exposed via Redfish")

\* Mutant: the system is taken from the last member of Systems, not the first.
get_raid_information_begin_last_system ==
    LET res == [raid_detected |-> FALSE, raid_capable |-> FALSE, message |-> Msg(""),
                controllers |-> <<>>, volumes |-> <<>>]
        systems == _read_json(SystemsJson)
        mem == Or(safe_get(systems.v, <<KName("Members")>>, EmptyList), EmptyList)
        last == IF IsList(mem) THEN Len(mem.a) - 1 ELSE 0
        system_id == _last_segment(safe_get(mem, <<KIdx(last), OdataId[1]>>, JNull))
        sid == system_id.v.s
        storage == _read_json(StorageCollectionPath(sid))
        storages == _read_json(StoragesCollectionPath(sid))
        fallback == ~Truthy(storage.v)
        storage_collection == IF fallback THEN storages ELSE storage
        storage_dir_name == IF fallback THEN "Storages" ELSE "Storage"
        storage_members ==
            Or(safe_get(storage_collection.v, <<KName("Members")>>, EmptyList), EmptyList)
        rd1 == Append(reads, SystemsJson)
        rd2 == Append(rd1, StorageCollectionPath(sid))
        rd3 == IF fallback THEN Append(rd2, StoragesCollectionPath(sid)) ELSE rd2
    IN IF systems.exc # "" THEN Throw(systems.exc, rd1)
       ELSE IF ~Truthy(systems.v) THEN Return([res EXCEPT !.message = NoSystems], rd1)
       ELSE IF ~Truthy(mem) THEN Return([res EXCEPT !.message = NoSystems], rd1)
       ELSE IF system_id.exc # "" THEN Throw(system_id.exc, rd1)
       ELSE IF ~Truthy(system_id.v) THEN Return([res EXCEPT !.message = NoSystems], rd1)
       ELSE IF storage.exc # "" THEN Throw(storage.exc, rd2)
       ELSE IF storage_collection.exc # "" THEN Throw(storage_collection.exc, rd3)
       ELSE IF ~Truthy(storage_collection.v)
       THEN Return([res EXCEPT !.message = NoStorage], rd3)
       ELSE IF ~Truthy(storage_members)
       THEN Return([res EXCEPT !.message = NoStorage], rd3)
       ELSE IF Iter(storage_members).exc # "" THEN Throw(Iter(storage_members).exc, rd3)
       ELSE EnterLoop(Iter(storage_members).items, res,
                      [system_id |-> sid, storage_dir_name |-> storage_dir_name], rd3)

get_raid_information_begin ==
    LET res == [raid_detected |-> FALSE, raid_capable |-> FALSE, message |-> Msg(""),
                controllers |-> <<>>, volumes |-> <<>>]
        systems == _read_json(SystemsJson)
        mem == Or(safe_get(systems.v, <<KName("Members")>>, EmptyList), EmptyList)
        system_id == _last_segment(safe_get(mem, <<KIdx(0), OdataId[1]>>, JNull))
        sid == system_id.v.s
        storage == _read_json(StorageCollectionPath(sid))
        storages == _read_json(StoragesCollectionPath(sid))
        fallback == ~Truthy(storage.v)
        storage_collection == IF fallback THEN storages ELSE storage
        storage_dir_name == IF fallback THEN "Storages" ELSE "Storage"
        storage_members ==
            Or(safe_get(storage_collection.v, <<KName("Members")>>, EmptyList), EmptyList)
        rd1 == Append(reads, SystemsJson)
        rd2 == Append(rd1, StorageCollectionPath(sid))
        rd3 == IF fallback THEN Append(rd2, StoragesCollectionPath(sid)) ELSE rd2
    IN IF systems.exc # "" THEN Throw(systems.exc, rd1)
       ELSE IF ~Truthy(systems.v) THEN Return([res EXCEPT !.message = NoSystems], rd1)
       ELSE IF ~Truthy(mem) THEN Return([res EXCEPT !.message = NoSystems], rd1)
       ELSE IF system_id.exc # "" THEN Throw(system_id.exc, rd1)
       ELSE IF ~Truthy(system_id.v) THEN Return([res EXCEPT !.message = NoSystems], rd1)
       ELSE IF storage.exc # "" THEN Throw(storage.exc, rd2)
       ELSE IF storage_collection.exc # "" THEN Throw(storage_collection.exc, rd3)
       ELSE IF ~Truthy(storage_collection.v)
       THEN Return([res EXCEPT !.message = NoStorage], rd3)
       ELSE IF ~Truthy(storage_members)
       THEN Return([res EXCEPT !.message = NoStorage], rd3)
       ELSE IF Iter(storage_members).exc # "" THEN Throw(Iter(storage_members).exc, rd3)
       ELSE EnterLoop(Iter(storage_members).items, res,
                      [system_id |-> sid, storage_dir_name |-> storage_dir_name], rd3)

Begin_get_raid_information ==
    /\ AtCall("get_raid_information")
    /\ \E out \in {get_raid_information_begin} : Apply(out)

\* One storage member: its controllers, then its volumes.
\* A variant of raid_capable_after: the flag follows the last controller.
raid_capable_last(before, ctrls) ==
    IF ctrls = <<>> THEN before ELSE ctrls[Len(ctrls)].capable

\* result["raid_capable"] after the controllers of one storage member: set by
\* any capable controller, never reset.
raid_capable_after(before, ctrls) ==
    before \/ \E i \in 1..Len(ctrls) : ctrls[i].capable

get_raid_information_member ==
    LET member == members[idx]
        storage_id == _last_segment(safe_get(member, OdataId, JNull))
        stid == storage_id.v.s
        spath == StoragePath(loc.system_id, loc.storage_dir_name, stid)
        vpath == VolumesPath(loc.system_id, loc.storage_dir_name, stid)
        storage == _read_json(spath)
        controllers ==
            Or(safe_get(storage.v, <<KName("StorageControllers")>>, EmptyList), EmptyList)
        ctrls == [i \in 1..Len(Iter(controllers).items) |->
                     controller(Iter(controllers).items[i])]
        res1 == [result EXCEPT
                    !.controllers = @ \o [i \in 1..Len(ctrls) |-> ctrls[i].info],
                    !.raid_capable = raid_capable_after(@, ctrls)]
        volumes_ref == safe_get(storage.v, <<KName("Volumes"), OdataId[1]>>, JNull)
        volumes_collection == _read_json(vpath)
        volume_members ==
            Or(safe_get(volumes_collection.v, <<KName("Members")>>, EmptyList), EmptyList)
        rd1 == Append(reads, spath)
        rd2 == Append(rd1, vpath)
        vols == volumes_loop(Iter(volume_members).items, loc.system_id,
                             loc.storage_dir_name, stid,
                             [exc |-> "", volumes |-> res1.volumes,
                              raid_detected |-> res1.raid_detected, reads |-> rd2])
    IN IF storage_id.exc # "" THEN Throw(storage_id.exc, reads)
       ELSE IF ~Truthy(storage_id.v) THEN NextMember(result, loc, reads)
       ELSE IF storage.exc # "" THEN Throw(storage.exc, rd1)
       ELSE IF ~Truthy(storage.v) THEN NextMember(result, loc, rd1)
       ELSE IF Iter(controllers).exc # "" THEN Throw(Iter(controllers).exc, rd1)
       ELSE IF \E i \in 1..Len(ctrls) : ctrls[i].exc # ""
       THEN Throw("AttributeError", rd1)
       ELSE IF ~Truthy(volumes_ref) THEN NextMember(res1, loc, rd1)
       ELSE IF volumes_collection.exc # "" THEN Throw(volumes_collection.exc, rd2)
       ELSE IF ~Truthy(volumes_collection.v) THEN NextMember(res1, loc, rd2)
       ELSE IF Iter(volume_members).exc # "" THEN Throw(Iter(volume_members).exc, rd2)
       ELSE IF vols.exc # "" THEN Throw(vols.exc, vols.reads)
       ELSE NextMember([res1 EXCEPT !.volumes = vols.volumes,
                                    !.raid_detected = vols.raid_detected],
                       loc, vols.reads)

Step_get_raid_information ==
    /\ AtMember("get_raid_information")
    /\ \E out \in {get_raid_information_member} : Apply(out)

\* Mutant of classify: the capable branch is tested before raid_detected.
classify_capable_first(raid_detected, raid_capable, volumes) ==
    IF raid_capable
    THEN IF volumes # <<>>
         THEN Msg("RAID-capable controller with volumes in HBA mode")
         ELSE Msg("RAID supported but not configured")
    ELSE IF raid_detected THEN Msg("Hardware RAID detected")
    ELSE Msg("No hardware RAID detected (possible HBA or software RAID)")

\* The message of a host whose storage members were walked.
classify(raid_detected, raid_capable, volumes) ==
    IF raid_detected THEN Msg("Hardware RAID detected")
    ELSE IF raid_capable
    THEN IF volumes # <<>>
         THEN Msg("RAID-capable controller with volumes in HBA mode")
         ELSE Msg("RAID supported but not configured")
    ELSE Msg("No hardware RAID detected (possible HBA or software RAID)")

get_raid_information_end ==
    Return([result EXCEPT !.message =
               classify(result.raid_detected, result.raid_capable, result.volumes)],
           reads)

Return_get_raid_information ==
    /\ AtLoopEnd("get_raid_information")
    /\ \E out \in {get_raid_information_end} : Apply(out)

(***************************************************************************)
(* Bounded inputs of the pure helpers.                                     *)
(***************************************************************************)
MaxArrLen == 2

MaxKeys == 2

MaxRefLen == 4

\* The sequences over S of length at most n.
SeqsUpTo(S, n) == UNION {[1..m -> S] : m \in 0..n}

Leaf == {JNull, JNum(1)}

Inner ==
    Leaf \cup {JArr(a) : a \in SeqsUpTo(Leaf, MaxArrLen)}
         \cup {Obj1("a", v) : v \in Leaf} \cup {EmptyObj}

Roots ==
    Inner \cup {JArr(<<x>>) : x \in Inner} \cup {JArr(<<JNum(1), x>>) : x \in Inner}
          \cup {Obj1("a", x) : x \in Inner}

Keys == {KName("a"), KName("b"), KIdx(0), KIdx(1), KIdx(-1), KIdx(-3)}

Defaults == {JNull, NA, Obj1("a", JNum(1))}

RefChars == {"/", "7", "a"}

\* "/redfish/v1/Chassis/7/"
ChassisSevenRef ==
    <<"/", "r", "e", "d", "f", "i", "s", "h", "/", "v", "1", "/",
      "C", "h", "a", "s", "s", "i", "s", "/", "7", "/">>

Refs == {JNull, JStr(ChassisSevenRef)} \cup {JStr(s) : s \in SeqsUpTo(RefChars, MaxRefLen)}

NoSnapshot == [p \in {} |-> JNull]

\* The variables of the host walks, unused by the calls of the pure helpers.
NoWalk ==
    /\ fs = NoSnapshot
    /\ members = <<>>
    /\ idx = 0
    /\ result = JNull
    /\ loc = JNull
    /\ reads = <<>>

(***************************************************************************)
(* SpecSafeGet: one call of safe_get on bounded arguments.                 *)
(***************************************************************************)
InitSafeGet ==
    /\ NoWalk
    /\ fn = ""
    /\ pc = "call"
    /\ arg \in [data : Roots, keys : SeqsUpTo(Keys, MaxKeys), default : Defaults]
    /\ ret = Ok(JNull)

Call_safe_get ==
    /\ pc = "call"
    /\ pc' = "done"
    /\ fn' = "safe_get"
    /\ ret' = Ok(safe_get(arg.data, arg.keys, arg.default))
    /\ UNCHANGED <<fs, members, idx, result, loc, reads, arg>>

Call_safe_get_script ==
    /\ pc = "call"
    /\ pc' = "done"
    /\ fn' = "safe_get_script"
    /\ ret' = safe_get_script(arg.data, arg.keys, arg.default)
    /\ UNCHANGED <<fs, members, idx, result, loc, reads, arg>>

NextSafeGet == Call_safe_get \/ Call_safe_get_script

SpecSafeGet == InitSafeGet /\ [][NextSafeGet]_vars

(***************************************************************************)
(* SpecRef: one call of _last_segment / extract_chassis_id.                *)
(***************************************************************************)
InitRef ==
    /\ NoWalk
    /\ fn = ""
    /\ pc = "call"
    /\ arg \in [odata_id : Refs]
    /\ ret = Ok(JNull)

Call_last_segment ==
    /\ pc = "call"
    /\ pc' = "done"
    /\ fn' = "_last_segment"
    /\ ret' = _last_segment(arg.odata_id)
    /\ UNCHANGED <<fs, members, idx, result, loc, reads, arg>>

Call_extract_chassis_id ==
    /\ pc = "call"
    /\ pc' = "done"
    /\ fn' = "extract_chassis_id"
    /\ ret' = extract_chassis_id(arg.odata_id)
    /\ UNCHANGED <<fs, members, idx, result, loc, reads, arg>>

NextRef == Call_last_segment \/ Call_extract_chassis_id

SpecRef == InitRef /\ [][NextRef]_vars

(***************************************************************************)
(* SpecChassis: one chassis-based report walks one host.  The snapshot is  *)
(* drawn from bounded sets of files; the chassis are "1" and "2".          *)
(***************************************************************************)
MaxMembers == 3

Ref(s) == Obj1("@odata.id", JStr(s))

ChassisIds == {<<"1">>, <<"2">>}

\* Member references: "/1", "/2/" and "/", which names no chassis.
MemberEntries == {Ref(<<"/", "1">>), Ref(<<"/", "2", "/">>), Ref(<<"/">>)}

Unavailable == {Missing, Unreadable, BadJson, BadText}

ChassisCollections ==
    Unavailable \cup {File(EmptyObj)}
        \cup {File(Obj1("Members", JArr(m))) : m \in SeqsUpTo(MemberEntries, MaxMembers)}

Num(id) == IF id = <<"1">> THEN 1 ELSE 2

\* A chassis with a power state and both sub-resource references.
FullDetail(id) ==
    JObj([PowerState |-> JStr(IF id = <<"1">> THEN <<"O", "n">> ELSE <<"O", "f", "f">>),
          ChassisType |-> JStr(<<"R", "a", "c", "k">>),
          Model |-> JStr(<<"R">> \o id),
          Thermal |-> Ref(<<"/">> \o id \o <<"/", "T">>),
          Power |-> Ref(<<"/">> \o id \o <<"/", "P">>)])

\* A chassis with neither power state nor sub-resource references.
BareDetail(id) == JObj([ChassisType |-> JStr(<<"C", "a", "r", "d">>)])

ChassisDetails(id) == {Missing, BadText, File(FullDetail(id)), File(BareDetail(id))}

ThermalDoc(id) ==
    JObj([Fans |-> JArr(<<JObj([Name |-> JStr(<<"F">> \o id), Reading |-> JNum(1000 * Num(id))]),
                         JObj([Reading |-> JNum(0)])>>),
          Temperatures |-> JArr(<<JObj([Name |-> JStr(<<"T">> \o id),
                                        ReadingCelsius |-> JNum(40 + Num(id))])>>)])

Thermals(id) == {Missing, File(ThermalDoc(id))}

PowerDoc(id) ==
    JObj([PowerControl |->
            JArr(<<JObj([PowerConsumedWatts |-> JNum(100 * Num(id)),
                         PowerMetrics |-> JObj([MinConsumedWatts |-> JNum(10 * Num(id)),
                                                MaxConsumedWatts |-> JNum(0)])])>>)])

Powers(id) == {Missing, File(PowerDoc(id)), File(JObj([PowerControl |-> EmptyList]))}

Indexes == {Missing, File(JObj([RedfishVersion |-> JStr(<<"1">>)]))}

ChassisReports ==
    {"get_device_information", "get_fan_metrics", "get_temperature_information",
     "get_power_metrics"}

ReadsThermal(f) == f \in {"get_fan_metrics", "get_temperature_information"}

ReadsPower(f) == f = "get_power_metrics"

\* The files no statement of the chosen report reads are left out of the snapshot.
InitChassis ==
    /\ fn \in ChassisReports
    /\ \E c \in ChassisCollections, d1 \in ChassisDetails(<<"1">>), d2 \in ChassisDetails(<<"2">>) :
       \E t1 \in IF ReadsThermal(fn) THEN Thermals(<<"1">>) ELSE {Missing},
          t2 \in IF ReadsThermal(fn) THEN Thermals(<<"2">>) ELSE {Missing},
          p1 \in IF ReadsPower(fn) THEN Powers(<<"1">>) ELSE {Missing},
          p2 \in IF ReadsPower(fn) THEN Powers(<<"2">>) ELSE {Missing},
          x \in IF ReadsPower(fn) THEN Indexes ELSE {Missing} :
            fs = (ChassisJson :> c) @@ (IndexJson :> x)
                 @@ (ChassisDetailPath(<<"1">>) :> d1) @@ (ChassisDetailPath(<<"2">>) :> d2)
                 @@ (ThermalPath(<<"1">>) :> t1) @@ (ThermalPath(<<"2">>) :> t2)
                 @@ (PowerPath(<<"1">>) :> p1) @@ (PowerPath(<<"2">>) :> p2)
    /\ pc = "call"
    /\ members = <<>>
    /\ idx = 0
    /\ result = JNull
    /\ loc = JNull
    /\ reads = <<>>
    /\ arg = JNull
    /\ ret = Ok(JNull)

NextChassis ==
    \/ Begin_get_device_information
    \/ Step_get_device_information
    \/ Return_get_device_information
    \/ Begin_get_temperature_information
    \/ Step_get_temperature_information
    \/ Return_get_temperature_information
    \/ Begin_get_fan_metrics
    \/ Step_get_fan_metrics
    \/ Return_get_fan_metrics
    \/ Begin_get_power_metrics
    \/ Step_get_power_metrics
    \/ Return_get_power_metrics

SpecChassis == InitChassis /\ [][NextChassis]_vars

(***************************************************************************)
(* SpecRaid: get_raid_information walks one host.  The storage tree of     *)
(* system "1" lies under one of the two names, Storage or Storages; its    *)
(* storage members are "a" and "d", their volumes "1" and "2".             *)
(***************************************************************************)
MaxVolumes == 2

\* Systems collections from which no system is resolved.
SystemsWithoutSystem ==
    {Missing, BadJson, File(EmptyObj), File(Obj1("Members", EmptyList)),
     File(Obj1("Members", JArr(<<Ref(<<"/">>), Ref(<<"/", "1">>)>>))),
     File(Obj1("Members", JArr(<<EmptyObj, Ref(<<"/", "1">>)>>)))}

\* Systems collections whose first member is system "1".
SystemsWithSystem ==
    {File(Obj1("Members", JArr(<<Ref(<<"/", "1">>)>>))),
     File(Obj1("Members", JArr(<<Ref(<<"/", "1", "/">>), Ref(<<"/", "2">>)>>)))}

StorageCollections ==
    {Missing,
     File(Obj1("Members", JArr(<<Ref(<<"/", "a">>)>>))),
     File(Obj1("Members", JArr(<<Ref(<<"/", "a">>), Ref(<<"/", "d">>)>>)))}

VolumesRef == Ref(<<"/", "V">>)

\* A controller that lists supported RAID types.
TypedController ==
    JObj([Name |-> JStr(<<"A">>),
          SupportedRAIDTypes |-> JArr(<<JStr(<<"R", "A", "I", "D", "1">>)>>)])

\* A controller that is RAID-capable by its name only.
NamedController == JObj([Model |-> JStr(<<"R", "a", "i", "d">>)])

\* A controller that is RAID-capable by its description only.
DescribedController ==
    JObj([Name |-> JStr(<<"D">>), Description |-> JStr(<<"N", "o", " ", "R", "A", "I", "D">>)])

\* A controller that is not RAID-capable.
PlainController == JObj([Name |-> JStr(<<"F">>), Description |-> JStr(<<"N", "A">>)])

StorageDetails ==
    {Missing,
     File(JObj([StorageControllers |-> JArr(<<TypedController>>), Volumes |-> VolumesRef])),
     File(JObj([StorageControllers |-> JArr(<<PlainController>>), Volumes |-> VolumesRef])),
     File(JObj([StorageControllers |-> JArr(<<PlainController, NamedController>>)])),
     File(JObj([StorageControllers |-> JArr(<<DescribedController>>)]))}

VolumeRefs == {Ref(<<"/", "1">>), Ref(<<"/", "2", "/">>)}

VolumeCollections ==
    {Missing} \cup {File(Obj1("Members", JArr(m))) : m \in SeqsUpTo(VolumeRefs, MaxVolumes)}

RaidVolume(id) ==
    JObj([Name |-> JStr(<<"D">> \o id),
          RAIDType |-> JStr(<<"R", "A", "I", "D", "1">>),
          CapacityBytes |-> JNum(1024 * 1024 * 128 * Num(id)),
          Links |-> JObj([Drives |-> JArr(<<Ref(<<"/", "7">>), Ref(<<"/">>)>>)])])

PlainVolume(id) == JObj([Name |-> JStr(<<"N">> \o id), RAIDType |-> JNull])

VolumeDetails(id) == {Missing, File(RaidVolume(id)), File(PlainVolume(id))}

\* The volume detail file of storage `st` under the directory name `dir`.
VolumeFile(dir, st, v) ==
    <<<<"Systems">>, <<"1">>, <<dir>>, st, <<"Volumes">>, v \o <<".json">>>>

InitRaid ==
    /\ fn = "get_raid_information"
    /\ \/ \E sys \in SystemsWithoutSystem : fs = (SystemsJson :> sys)
       \/ \E sys \in SystemsWithSystem, dir \in {"Storage", "Storages"},
             coll \in StorageCollections,
             sa \in StorageDetails, sd \in StorageDetails \ {Missing},
             va \in VolumeCollections,
             a1 \in VolumeDetails(<<"1">>), a2 \in VolumeDetails(<<"2">>) \ {Missing},
             d1 \in VolumeDetails(<<"1">>) \ {Missing} :
            fs = (SystemsJson :> sys)
                 @@ ((IF dir = "Storage" THEN StorageCollectionPath(<<"1">>)
                      ELSE StoragesCollectionPath(<<"1">>)) :> coll)
                 @@ (StoragePath(<<"1">>, dir, <<"a">>) :> sa)
                 @@ (StoragePath(<<"1">>, dir, <<"d">>) :> sd)
                 @@ (VolumesPath(<<"1">>, dir, <<"a">>) :> va)
                 @@ (VolumesPath(<<"1">>, dir, <<"d">>) :>
                        File(Obj1("Members", JArr(<<Ref(<<"/", "1">>)>>))))
                 @@ (VolumeFile(dir, <<"a">>, <<"1">>) :> a1)
                 @@ (VolumeFile(dir, <<"a">>, <<"2">>) :> a2)
                 @@ (VolumeFile(dir, <<"d">>, <<"1">>) :> d1)
    /\ pc = "call"
    /\ members = <<>>
    /\ idx = 0
    /\ result = JNull
    /\ loc = JNull
    /\ reads = <<>>
    /\ arg = JNull
    /\ ret = Ok(JNull)

NextRaid ==
    \/ Begin_get_raid_information
    \/ Step_get_raid_information
    \/ Return_get_raid_information

SpecRaid == InitRaid /\ [][NextRaid]_vars

(***************************************************************************)
(* Claims about safe_get.                                                  *)
(***************************************************************************)
RECURSIVE Lookup(_, _)
\* The value stored at a key path, when every step of the path exists:
\* a field name present in the object reached, an index within the array reached.
Lookup(v, keys) ==
    IF keys = <<>> THEN [found |-> TRUE, v |-> v]
    ELSE LET key == Head(keys) IN
         IF IsDict(v) /\ ~IsIntKey(key) /\ key.k \in DOMAIN v.o
         THEN Lookup(v.o[key.k], Tail(keys))
         ELSE IF IsList(v) /\ IsIntKey(key) /\ key.i \in 0..(Len(v.a) - 1)
         THEN Lookup(v.a[key.i + 1], Tail(keys))
         ELSE [found |-> FALSE, v |-> JNull]

SafeGetReturned == pc = "done" /\ fn \in {"safe_get", "safe_get_script"}

\* C1: every copy of safe_get, on any root, any keys (names or integers, negative
\* and past-the-end ones included) and any default, never raises, and returns the
\* default when some step of the path is inapplicable.
C1_NeverRaisesDefaultOnFailure ==
    SafeGetReturned =>
        /\ ret.exc = ""
        /\ ~Lookup(arg.data, arg.keys).found => ret = Ok(arg.default)

\* C2 as stated: for a key sequence matching an existing path, safe_get returns
\* exactly the value stored there, whatever the value and the default.
C2_ExistingPathReturnsStoredValue ==
    SafeGetReturned /\ Lookup(arg.data, arg.keys).found =>
        ret = Ok(Lookup(arg.data, arg.keys).v)

\* C2 amended: for a key sequence matching an existing path, safe_get returns
\* exactly the value stored there when that value is not null; a stored null
\* reached through at least one key is returned as the default.
C2_ExistingPathReturnsNonNullValue ==
    SafeGetReturned /\ Lookup(arg.data, arg.keys).found =>
        LET v == Lookup(arg.data, arg.keys).v IN
        /\ ~IsNone(v) => ret = Ok(v)
        /\ IsNone(v) /\ arg.keys # <<>> => ret = Ok(arg.default)

\* Witness of C2: a two-key path to a stored non-null value, read with a default
\* that differs from it.
C2_Witness ==
    /\ SafeGetReturned
    /\ Len(arg.keys) = 2
    /\ Lookup(arg.data, arg.keys).found
    /\ Lookup(arg.data, arg.keys).v = JNum(1)
    /\ arg.default = NA
    /\ ret = Ok(JNum(1))

(***************************************************************************)
(* Claims about reference resolution.                                      *)
(***************************************************************************)
\* The reference without its trailing slashes.
Stripped(s) ==
    LET n == CHOOSE i \in 0..Len(s) :
                 /\ i = 0 \/ s[i] # "/"
                 /\ \A j \in (i + 1)..Len(s) : s[j] = "/"
    IN SubSeq(s, 1, n)

\* The part of s after its last slash.
FinalSegment(s) ==
    LET n == CHOOSE i \in 0..Len(s) :
                 /\ i = 0 \/ s[i] = "/"
                 /\ \A j \in (i + 1)..Len(s) : s[j] # "/"
    IN SubSeq(s, n + 1, Len(s))

RefReturned == pc = "done" /\ fn \in {"_last_segment", "extract_chassis_id"}

\* C3: reference resolution returns the final non-empty segment of the reference
\* with its trailing slashes stripped ("/redfish/v1/Chassis/7/" gives "7"), and
\* None for None, for the empty string and for a reference left with no segment ("/").
C3_FinalSegmentOrNone ==
    RefReturned =>
        IF IsNone(arg.odata_id) \/ Stripped(arg.odata_id.s) = <<>>
        THEN ret = Ok(JNull)
        ELSE ret = Ok(JStr(FinalSegment(Stripped(arg.odata_id.s))))

(***************************************************************************)
(* Claims about the chassis walks.  What a walk should hold is read off    *)
(* the snapshot, member by member, with Lookup.                            *)
(***************************************************************************)
MemberRef(m) == m.o["@odata.id"].s

HasId(m) == Stripped(MemberRef(m)) # <<>>

IdOf(m) == FinalSegment(Stripped(MemberRef(m)))

DetailOf(m) == FileAt(ChassisDetailPath(IdOf(m)))

ThermalOf(m) == FileAt(ThermalPath(IdOf(m)))

PowerOf(m) == FileAt(PowerPath(IdOf(m)))

\* The non-null value stored in doc at keys, else default.
Stored(doc, keys, default) ==
    LET at == Lookup(doc, keys)
    IN IF at.found /\ ~IsNone(at.v) THEN at.v ELSE default

\* The values stored under `field` in the entries of the list doc[list].
StoredColumn(doc, list, field) ==
    LET entries == Stored(doc, <<KName(list)>>, EmptyList).a
    IN [i \in 1..Len(entries) |-> Stored(entries[i], <<KName(field)>>, NA)]

\* The members the walk has been through.
Walked == SubSeq(members, 1, IF pc = "done" THEN Len(members) ELSE idx - 1)

InLoopOrDone == pc \in {"loop", "done"} /\ members # <<>>

\* The power state one member owes to the record.
MemberState(report, m) ==
    IF /\ report # "get_device_information"
       /\ HasId(m)
       /\ DetailOf(m).st = "ok"
       /\ Lookup(DetailOf(m).doc, <<KName("PowerState")>>).found
    THEN <<JStr(lower(Lookup(DetailOf(m).doc, <<KName("PowerState")>>).v.s))>>
    ELSE <<>>

\* The items one member owes to the record: its identity and type for the
\* device report, its sensor readings for the temperature report, its fan
\* readings for the fan report.
MemberItems(report, m) ==
    CASE ~HasId(m) -> <<>>
      [] HasId(m) /\ report = "get_device_information" ->
            IF DetailOf(m).st = "ok"
            THEN <<<<JStr(IdOf(m)),
                     Stored(DetailOf(m).doc, <<KName("ChassisType")>>, Str_Unknown)>>>>
            ELSE <<>>
      [] HasId(m) /\ report = "get_temperature_information" ->
            IF ThermalOf(m).st = "ok"
            THEN StoredColumn(ThermalOf(m).doc, "Temperatures", "ReadingCelsius")
            ELSE <<>>
      [] HasId(m) /\ report = "get_fan_metrics" ->
            IF /\ DetailOf(m).st = "ok"
               /\ Lookup(DetailOf(m).doc, <<KName("Thermal")>>).found
               /\ ThermalOf(m).st = "ok"
            THEN StoredColumn(ThermalOf(m).doc, "Fans", "Reading")
            ELSE <<>>
      [] OTHER -> <<>>

RECURSIVE ExpectedStates(_, _)
ExpectedStates(report, ms) ==
    IF ms = <<>> THEN <<>>
    ELSE MemberState(report, Head(ms)) \o ExpectedStates(report, Tail(ms))

RECURSIVE ExpectedItems(_, _)
ExpectedItems(report, ms) ==
    IF ms = <<>> THEN <<>>
    ELSE MemberItems(report, Head(ms)) \o ExpectedItems(report, Tail(ms))

\* The power states the walk holds so far.
ActualStates ==
    CASE fn = "get_device_information" -> <<>>
      [] fn = "get_power_metrics" -> loc.power_states
      [] OTHER -> result.power_states

\* The items the record holds so far.
ActualItems ==
    CASE fn = "get_device_information" ->
            [i \in 1..Len(result.chassis_info) |->
                <<result.chassis_info[i].chassis_id, result.chassis_info[i].chassis_type>>]
      [] fn = "get_temperature_information" ->
            [i \in 1..Len(result.temperatures) |-> result.temperatures[i].reading]
      [] fn = "get_fan_metrics" ->
            [i \in 1..Len(result.fans) |-> result.fans[i].reading_rpm]
      [] OTHER -> <<>>

\* C4: in every report, a document that is missing, cannot be decoded or cannot
\* be read is loaded as "unavailable" without raising: no walk that loaded such
\* a document ends with an exception instead of the host's record.
C4_UnavailableDocumentNeverRaises ==
    \A i \in 1..Len(reads) : FileAt(reads[i]).st # "ok" => pc # "raised"

\* C5: in every chassis-based report, members whose detail file is absent do
\* not abort the walk, and every other member, before and after them in member
\* order, contributes its data: the record holds exactly what the members
\* walked so far owe to it, and a walk only ends with an exception on a file
\* that is present but cannot be loaded.
C5_MissingMemberRobustness ==
    fn \in ChassisReports =>
        /\ pc = "raised" =>
              \E i \in 1..Len(reads) : FileAt(reads[i]).st \notin {"ok", "missing"}
        /\ InLoopOrDone =>
              /\ ActualStates = ExpectedStates(fn, Walked)
              /\ ActualItems = ExpectedItems(fn, Walked)

\* Witness of C5: three members, the detail file of the middle one absent, and
\* the record returned with the data of the first and the third.
C5_Witness ==
    /\ fn = "get_device_information"
    /\ pc = "done"
    /\ Len(members) = 3
    /\ \A i \in 1..3 : HasId(members[i])
    /\ DetailOf(members[1]).st = "ok"
    /\ DetailOf(members[2]).st = "missing"
    /\ DetailOf(members[3]).st = "ok"
    /\ Len(result.chassis_info) = 2

\* A chassis with a Power reference and a Power.json that loads.
HasLoadablePower(m) ==
    /\ HasId(m)
    /\ DetailOf(m).st = "ok"
    /\ Lookup(DetailOf(m).doc, <<KName("Power")>>).found
    /\ PowerOf(m).st = "ok"

\* A chassis with loadable Power data whose PowerControl has a first element.
HasPowerControl(m) ==
    /\ HasLoadablePower(m)
    /\ Lookup(PowerOf(m).doc, <<KName("PowerControl"), KIdx(0)>>).found

Metrics(res) ==
    <<res.PowerConsumedWatts, res.MinConsumedWatts, res.MaxConsumedWatts,
      res.AverageConsumedWatts>>

NoMetrics == <<NA, NA, NA, NA>>

\* The four values stored in the first element of the PowerControl of a chassis.
MetricsOf(m) ==
    LET first == Lookup(PowerOf(m).doc, <<KName("PowerControl"), KIdx(0)>>)
    IN IF ~first.found THEN NoMetrics
       ELSE <<Stored(first.v, <<KName("PowerConsumedWatts")>>, NA),
              Stored(first.v, <<KName("PowerMetrics"), KName("MinConsumedWatts")>>, NA),
              Stored(first.v, <<KName("PowerMetrics"), KName("MaxConsumedWatts")>>, NA),
              Stored(first.v, <<KName("PowerMetrics"), KName("AverageConsumedWatts")>>, NA)>>

First(S) == CHOOSE i \in S : \A j \in S : i <= j

InPowerWalk == fn = "get_power_metrics" /\ InLoopOrDone

\* C6 as stated: only the first chassis in member order with a Power reference
\* and a loadable Power.json contributes the four values; later chassis are
\* ignored and the values are never overwritten.
C6_FirstLoadablePowerWins ==
    InPowerWalk =>
        LET S == {i \in 1..Len(Walked) : HasLoadablePower(Walked[i])}
        IN Metrics(result) = IF S = {} THEN NoMetrics ELSE MetricsOf(Walked[First(S)])

\* C6 amended: only the first chassis in member order with a Power reference, a
\* loadable Power.json and a non-empty PowerControl contributes the four values;
\* at every point of the walk the record holds the values of that chassis, so
\* later chassis are ignored and the values are never overwritten.
C6_FirstPowerControlWins ==
    InPowerWalk =>
        LET S == {i \in 1..Len(Walked) : HasPowerControl(Walked[i])}
        IN Metrics(result) = IF S = {} THEN NoMetrics ELSE MetricsOf(Walked[First(S)])

\* Witness of C6: two different chassis, both with Power data, and the record
\* returned with the values of the first.
C6_Witness ==
    /\ fn = "get_power_metrics"
    /\ pc = "done"
    /\ Len(members) >= 2
    /\ HasPowerControl(members[1])
    /\ HasPowerControl(members[2])
    /\ IdOf(members[1]) # IdOf(members[2])
    /\ Metrics(result) = MetricsOf(members[1])
    /\ Metrics(result) # MetricsOf(members[2])

(***************************************************************************)
(* Claims about the RAID walk.                                             *)
(***************************************************************************)
\* The walk went through the storage members and classified the host.
Classified == fn = "get_raid_information" /\ pc = "done" /\ members # <<>>

HardwareRaid == Msg("Hardware RAID detected")

\* C7: for a host whose storage walk reaches classification, the message follows
\* the rule in order: raid_detected; else raid_capable with volumes; else
\* raid_capable without volumes; else no hardware RAID.
C7_MessageFollowsRule ==
    Classified =>
        /\ result.raid_detected => result.message = HardwareRaid
        /\ ~result.raid_detected /\ result.raid_capable /\ result.volumes # <<>> =>
              result.message = Msg("RAID-capable controller with volumes in HBA mode")
        /\ ~result.raid_detected /\ result.raid_capable /\ result.volumes = <<>> =>
              result.message = Msg("RAID supported but not configured")
        /\ ~result.raid_detected /\ ~result.raid_capable =>
              result.message = Msg("No hardware RAID detected (possible HBA or software RAID)")

\* Witness of C7: a classified host that is both RAID-capable and RAID-detected.
C7_Witness ==
    /\ Classified
    /\ result.raid_detected
    /\ result.raid_capable
    /\ result.volumes # <<>>
    /\ result.message = HardwareRaid

\* C8: the host is marked raid_detected and reported as "Hardware RAID detected"
\* when any recorded volume, in any position, carries a non-null RAIDType.
C8_AnyRaidVolumeDetected ==
    Classified /\ (\E i \in 1..Len(result.volumes) : ~IsNone(result.volumes[i].raid_type)) =>
        result.raid_detected /\ result.message = HardwareRaid

\* C9: the name under which the storage collection was loaded, Storage or
\* Storages, composes every later path under the system: each storage detail,
\* each Volumes collection and each volume detail file.
C9_StorageNameInEveryPath ==
    fn = "get_raid_information" /\ members # <<>> =>
        \A i \in 1..Len(reads) :
            Len(reads[i]) >= 4 => reads[i][3] = <<loc.storage_dir_name>>

\* The reference of the first member of Systems.
FirstSystemRef ==
    Lookup(FileAt(SystemsJson).doc, <<KName("Members"), KIdx(0), KName("@odata.id")>>)

\* Systems.json is absent, or its Members is empty or absent, or the reference
\* of its first member names no system.
NoSystemResolved ==
    \/ FileAt(SystemsJson).st = "missing"
    \/ /\ FileAt(SystemsJson).st = "ok"
       /\ \/ ~FirstSystemRef.found
          \/ ~IsStr(FirstSystemRef.v)
          \/ Stripped(FirstSystemRef.v.s) = <<>>

\* C10: without Systems.json, with Members empty or absent, or with a first
\* member whose reference cannot be resolved, the record has the message "No
\* systems info exposed via Redfish", empty controllers and volumes and both
\* flags false; and every file read under Systems belongs to the first member.
C10_FirstSystemOnly ==
    fn = "get_raid_information" /\ pc # "call" =>
        /\ NoSystemResolved =>
              /\ pc = "done"
              /\ result = [raid_detected |-> FALSE, raid_capable |-> FALSE,
                           message |-> NoSystems, controllers |-> <<>>, volumes |-> <<>>]
              /\ reads = <<SystemsJson>>
        /\ FileAt(SystemsJson).st = "ok" /\ ~NoSystemResolved =>
              \A i \in 1..Len(reads) :
                  Len(reads[i]) >= 2 =>
                      reads[i][2] = FinalSegment(Stripped(FirstSystemRef.v.s))

\* Witness of C10: Systems lists two members, the first unresolvable, and the
\* record says that no system is exposed.
C10_Witness ==
    /\ fn = "get_raid_information"
    /\ pc = "done"
    /\ FileAt(SystemsJson).st = "ok"
    /\ Lookup(FileAt(SystemsJson).doc, <<KName("Members"), KIdx(1)>>).found
    /\ NoSystemResolved
    /\ result.message = NoSystems

(***************************************************************************)
(* Claims about the start of a chassis walk.                               *)
(***************************************************************************)
\* Chassis.json does not load, or its Members is absent or empty.
NoChassis ==
    \/ FileAt(ChassisJson).st # "ok"
    \/ ~Lookup(FileAt(ChassisJson).doc, <<KName("Members")>>).found
    \/ ~Truthy(Lookup(FileAt(ChassisJson).doc, <<KName("Members")>>).v)

\* The record holds no extracted item.
ZeroItems ==
    CASE fn = "get_device_information" -> result.chassis_info = <<>>
      [] fn = "get_temperature_information" ->
            result.temperatures = <<>> /\ result.power_states = <<>>
      [] fn = "get_fan_metrics" -> result.fans = <<>> /\ result.power_states = <<>>
      [] fn = "get_power_metrics" ->
            Metrics(result) = NoMetrics /\ result.power_states = <<>>

\* The record's message says that no chassis was found, in the reports whose
\* record carries a message.
NoChassisMessage ==
    CASE fn = "get_device_information" ->
            result.message \in {Msg("No chassis info exposed via Redfish"),
                                Msg("No chassis members found")}
      [] fn = "get_temperature_information" ->
            result.message \in {Msg("No chassis info exposed via Redfish"),
                                Msg("No chassis members exposed via Redfish")}
      [] OTHER -> TRUE

\* C11: in every chassis-based report, a Chassis collection that is unavailable
\* or whose Members is empty or absent yields a record with zero extracted items
\* and a "no chassis" message, and the walk stops without raising.
C11_NoChassisStopsQuietly ==
    fn \in ChassisReports /\ pc # "call" /\ NoChassis =>
        /\ pc = "done"
        /\ members = <<>>
        /\ ZeroItems
        /\ NoChassisMessage

(***************************************************************************)
(* SpecMismatch: every report walks one host whose documents all load but  *)
(* hold values of another JSON type than the report expects.  The host has *)
(* one chassis "1", one system "1" and one storage member "a".             *)
(***************************************************************************)
\* Values that are neither an object nor an array.
Scalars == {JNull, JNum(5)}

ChassisOne == JArr(<<Ref(<<"/", "1">>)>>)

\* Chassis.json: an array, Members of another type, a Members entry that is a
\* str, and the well-formed collection.
MismatchedCollections ==
    {File(ChassisOne), File(Obj1("Members", JArr(<<JStr(<<"/", "1">>)>>))),
     File(Obj1("Members", ChassisOne))}
        \cup {File(Obj1("Members", x)) : x \in Scalars}

\* Chassis/1.json: an array, a PowerState that is a number, and the well-formed detail.
MismatchedDetails ==
    {File(EmptyList), File(FullDetail(<<"1">>)),
     File(JObj([PowerState |-> JNum(5),
                Thermal |-> Ref(<<"/", "T">>), Power |-> Ref(<<"/", "P">>)]))}

\* Thermal.json: Fans and Temperatures of another type, and the well-formed document.
MismatchedThermals ==
    {File(ThermalDoc(<<"1">>))} \cup {File(JObj([Fans |-> x, Temperatures |-> x])) : x \in Scalars}

\* Power.json: PowerControl of another type, and the well-formed document.
MismatchedPowers ==
    {File(PowerDoc(<<"1">>))} \cup {File(Obj1("PowerControl", x)) : x \in Scalars}

\* Storage/a.json: StorageControllers of another type, a controller whose Name
\* is a number, a controller that is a str, and a well-formed controller.
MismatchedStorages ==
    {File(Obj1("StorageControllers", x)) : x \in Scalars}
        \cup {File(Obj1("StorageControllers", JArr(<<c>>))) :
                 c \in {Obj1("Name", JNum(5)), JStr(<<"A">>), TypedController}}

AllReports == ChassisReports \cup {"get_raid_information"}

InitMismatch ==
    /\ fn \in AllReports
    /\ \/ /\ fn \in ChassisReports
          /\ \E c \in MismatchedCollections, d \in MismatchedDetails :
             \E t \in IF ReadsThermal(fn) THEN MismatchedThermals ELSE {Missing},
                p \in IF ReadsPower(fn) THEN MismatchedPowers ELSE {Missing} :
                fs = (ChassisJson :> c) @@ (ChassisDetailPath(<<"1">>) :> d)
                     @@ (ThermalPath(<<"1">>) :> t) @@ (PowerPath(<<"1">>) :> p)
       \/ /\ fn = "get_raid_information"
          /\ \E st \in MismatchedStorages :
                fs = (SystemsJson :> File(Obj1("Members", ChassisOne)))
                     @@ (StorageCollectionPath(<<"1">>) :>
                            File(Obj1("Members", JArr(<<Ref(<<"/", "a">>)>>))))
                     @@ (StoragePath(<<"1">>, "Storage", <<"a">>) :> st)
    /\ pc = "call"
    /\ members = <<>>
    /\ idx = 0
    /\ result = JNull
    /\ loc = JNull
    /\ reads = <<>>
    /\ arg = JNull
    /\ ret = Ok(JNull)

NextMismatch == NextChassis \/ NextRaid

SpecMismatch == InitMismatch /\ [][NextMismatch]_vars

\* C12: in every report, a loaded document or a field of another JSON type than
\* the expected object or array (Chassis.json an array, a Members entry a str,
\* Fans or PowerControl null or a number, PowerState or a controller Name a
\* number) is treated as unavailable: on a host whose files all load, no walk
\* ends with an exception.
C12_StructuralMismatchNeverFatal ==
    (\A p \in DOMAIN fs : fs[p].st \in {"ok", "missing"}) => pc # "raised"

(***************************************************************************)
(* SpecGib: the capacity of one volume document, as get_raid_information   *)
(* records it and main prints it.  Byte counts are multiples of 16 MiB.    *)
(***************************************************************************)
MaxChunks == 64

Chunk == TwoPow14 * 1024

\* CapacityBytes: small counts, multiples of 16 MiB up to MaxChunks, and counts
\* of 1 to 10 GiB plus such a multiple.
ByteCounts ==
    {JNum(k * Chunk) : k \in 0..MaxChunks}
        \cup {JBig(hi, k * Chunk) : hi \in {1, 10}, k \in {0, 8, 63}}

VolumeDocuments ==
    {Obj1("CapacityBytes", n) : n \in ByteCounts \cup {JNull, JStr(<<"1">>)}}
        \cup {EmptyObj}

InitGib ==
    /\ NoWalk
    /\ fn = ""
    /\ pc = "call"
    /\ arg \in [vol : VolumeDocuments]
    /\ ret = Ok(JNull)

\* vol_cap_bytes, vol_cap_gib and the printed capacity of one volume.
Call_bytes_to_gib ==
    /\ pc = "call"
    /\ pc' = "done"
    /\ fn' = "_bytes_to_gib"
    /\ LET vol_cap_bytes == safe_get(arg.vol, <<KName("CapacityBytes")>>, JNull)
           vol_cap_gib == _bytes_to_gib(vol_cap_bytes)
       IN /\ ret' = Ok(vol_cap_gib)
          /\ result' = capacity_text(vol_cap_gib)
    /\ UNCHANGED <<fs, members, idx, loc, reads, arg>>

NextGib == Call_bytes_to_gib

SpecGib == InitGib /\ [][NextGib]_vars

GibReturned == pc = "done" /\ fn = "_bytes_to_gib"

\* The CapacityBytes stored in the volume document, if any.
StoredBytes == Lookup(arg.vol, <<KName("CapacityBytes")>>)

\* h hundredths is a nearest two-decimal value of k / 64 GiB: |h - 100k/64| <= 1/2.
NearestHundredths(h, k) == 16 * h - 25 * k \in -8..8

\* C13: the GiB value of a volume is its CapacityBytes divided by 1024^3 and
\* rounded to two decimals (10,737,418,240 bytes give 10.0, 0 bytes give 0.0);
\* without CapacityBytes it is None, printed as NA, never a number, so a zero
\* and a missing reading differ in the record.
C13_CapacityInGib ==
    GibReturned =>
        /\ ~StoredBytes.found => ret = Ok(JNull) /\ result = Msg("NA")
        /\ StoredBytes.found /\ StoredBytes.v.t = "num" =>
              /\ ret.v.t = "float"
              /\ NearestHundredths(ret.v.h, StoredBytes.v.n \div Chunk)
              /\ result # Msg("NA")
        /\ StoredBytes.found /\ StoredBytes.v.t = "big" =>
              /\ ret.v.t = "float"
              /\ NearestHundredths(ret.v.h - 100 * StoredBytes.v.hi, StoredBytes.v.lo \div Chunk)
        /\ StoredBytes.found /\ StoredBytes.v = JBig(10, 0) => ret = Ok(JFloat(1000))
        /\ StoredBytes.found /\ StoredBytes.v = JNum(0) => ret = Ok(JFloat(0))

\* Witness of C13: 10,737,418,240 bytes recorded as 10.0 GiB.
C13_Witness ==
    /\ GibReturned
    /\ StoredBytes.found
    /\ StoredBytes.v = JBig(10, 0)
    /\ ret = Ok(JFloat(1000))
    /\ result # Msg("NA")

(***************************************************************************)
(* main of the power and RAID reports (the five mains are the same loops): *)
(* the datacenters of the dump in enumeration order, the hosts of each     *)
(* sorted, one call of the report per host directory, then the display.    *)
(* During main, arg holds main's locals and pc is "main" between calls,    *)
(* "printed" once the display is done.                                      *)
(***************************************************************************)
RECURSIVE sorted_paths(_)
\* sorted(datacenter_dir.iterdir()): the entries of one directory by name.
sorted_paths(xs) ==
    IF xs = <<>> THEN <<>>
    ELSE LET rest == sorted_paths(SubSeq(xs, 1, Len(xs) - 1))
             x == xs[Len(xs)]
             n == Cardinality({i \in 1..Len(rest) : ~StrLess(x.name, rest[i].name)})
         IN SubSeq(rest, 1, n) \o <<x>> \o SubSeq(rest, n + 1, Len(rest))

\* ", ".join(power_states) if power_states else "NA"
power_states_str(power_states) == IF power_states # <<>> THEN JArr(power_states) ELSE NA

\* The line main prints for one record of the power report.
power_line(r) ==
    <<[text |-> "[{redfish_version}] [{power_states_str}] {datacenter}/{hostname}: ...",
       datacenter |-> r.datacenter, hostname |-> r.hostname,
       fields |-> <<r.record.redfish_version, power_states_str(r.record.power_states),
                    r.record.PowerConsumedWatts, r.record.MinConsumedWatts,
                    r.record.MaxConsumedWatts, r.record.AverageConsumedWatts>>]>>

\* The lines main prints for one record of the RAID report: the host, its
\* controllers, its volumes.
raid_lines(r) ==
    LET head == [text |-> "{head}: {status} --> {message}",
                 datacenter |-> r.datacenter, hostname |-> r.hostname,
                 fields |-> <<r.record.raid_detected, r.record.raid_capable,
                              r.record.message>>]
        cs == r.record.controllers
        vs == r.record.volumes
    IN <<head>>
       \o [i \in 1..Len(cs) |->
              [text |-> "  controller: {name} | supported: {sup_str}",
               datacenter |-> r.datacenter, hostname |-> r.hostname,
               fields |-> <<Or(cs[i].name, Or(cs[i].model, Str_Controller)),
                            Or(cs[i].supported_raid_types, Str_Dash)>>]]
       \o [i \in 1..Len(vs) |->
              [text |-> "  volume: {name} | raid={raid_type} | capacity={cap} | drives=[{drives}]",
               datacenter |-> r.datacenter, hostname |-> r.hostname,
               fields |-> <<Or(vs[i].name, Str_Dash), vs[i].raid_type,
                            capacity_text(vs[i].capacity_gib),
                            IF vs[i].drives # <<>> THEN JArr(vs[i].drives)
                            ELSE Str_Dash>>]]

\* The lines main prints for one record of the temperature report: the
\* host, its sensors.
temperature_lines(r) ==
    LET ts == r.record.temperatures IN
    <<[text |-> "[{power_states_str}] {datacenter}/{hostname}: {message}",
       datacenter |-> r.datacenter, hostname |-> r.hostname,
       fields |-> <<power_states_str(r.record.power_states), r.record.message>>]>>
    \o [i \in 1..Len(ts) |->
           [text |-> "  [{chassis_id}] {name}: {reading}C (Context: {physical_context})",
            datacenter |-> r.datacenter, hostname |-> r.hostname,
            fields |-> <<ts[i].chassis_id, ts[i].name, ts[i].reading,
                         ts[i].physical_context>>]]

RECURSIVE display(_, _)
\* The display loop of main over all_results.
display(report, all_results) ==
    IF all_results = <<>> THEN <<>>
    ELSE (CASE report = "get_power_metrics" -> power_line(Head(all_results))
            [] report = "get_temperature_information" -> temperature_lines(Head(all_results))
            [] OTHER -> raid_lines(Head(all_results)))
         \o display(report, Tail(all_results))

InMain == pc = "main"

\* The inner loop over the hosts of the current datacenter is over.
HostsDone == arg.h > Len(arg.hosts)

\* The outer loop: the next entry of base_dir.iterdir().
Main_datacenter ==
    /\ InMain /\ HostsDone /\ arg.d <= Len(arg.base)
    /\ LET datacenter_dir == arg.base[arg.d] IN
       arg' = IF ~datacenter_dir.is_dir
              THEN [arg EXCEPT !.d = @ + 1]
              ELSE [arg EXCEPT !.d = @ + 1,
                               !.datacenter = datacenter_dir.name,
                               !.hosts = sorted_paths(datacenter_dir.hosts),
                               !.h = 1]
    /\ UNCHANGED <<fs, fn, pc, members, idx, result, loc, reads, ret>>

\* The inner loop: an entry that is no directory is passed over, a host
\* directory is handed to the report function.
Main_host ==
    /\ InMain /\ ~HostsDone
    /\ LET host_dir == arg.hosts[arg.h] IN
       IF ~host_dir.is_dir
       THEN /\ arg' = [arg EXCEPT !.h = @ + 1]
            /\ UNCHANGED <<fs, pc, members, idx, result, loc, reads>>
       ELSE /\ fs' = host_dir.tree
            /\ pc' = "call"
            /\ members' = <<>>
            /\ idx' = 0
            /\ result' = JNull
            /\ loc' = JNull
            /\ reads' = <<>>
            /\ arg' = arg
    /\ UNCHANGED <<fn, ret>>

\* all_results.append(res), once the report function has returned.
Main_append ==
    /\ pc = "done"
    /\ pc' = "main"
    /\ arg' = [arg EXCEPT !.h = @ + 1,
                          !.all_results =
                              Append(@, [datacenter |-> arg.datacenter,
                                         hostname |-> arg.hosts[arg.h].name,
                                         record |-> result])]
    /\ UNCHANGED <<fs, fn, members, idx, result, loc, reads, ret>>

\* The display of all_results, after both loops.
Main_print ==
    /\ InMain /\ HostsDone /\ arg.d > Len(arg.base)
    /\ pc' = "printed"
    /\ arg' = [arg EXCEPT !.lines = display(fn, arg.all_results)]
    /\ UNCHANGED <<fs, fn, members, idx, result, loc, reads, ret>>

(***************************************************************************)
(* SpecMain: main over a dump of two datacenter entries in either          *)
(* enumeration order: "D", whose entries are drawn from bounded sets, and  *)
(* "A", a file, an empty directory or a directory with one host.           *)
(***************************************************************************)
MaxHosts == 2

HostNames == {<<"a">>, <<"d">>, <<"d", "a">>}

\* A host whose documents load and have the expected shape.
GoodHost(report) ==
    IF report = "get_power_metrics"
    THEN (ChassisJson :> File(Obj1("Members", ChassisOne)))
         @@ (ChassisDetailPath(<<"1">>) :> File(FullDetail(<<"1">>)))
         @@ (PowerPath(<<"1">>) :> File(PowerDoc(<<"1">>)))
    ELSE IF report = "get_temperature_information"
    THEN (ChassisJson :> File(Obj1("Members", ChassisOne)))
         @@ (ChassisDetailPath(<<"1">>) :> File(FullDetail(<<"1">>)))
         @@ (ThermalPath(<<"1">>) :> File(ThermalDoc(<<"1">>)))
    ELSE (SystemsJson :> File(Obj1("Members", ChassisOne)))
         @@ (StorageCollectionPath(<<"1">>) :>
                File(Obj1("Members", JArr(<<Ref(<<"/", "a">>)>>))))
         @@ (StoragePath(<<"1">>, "Storage", <<"a">>) :>
                File(JObj([StorageControllers |-> JArr(<<TypedController>>),
                           Volumes |-> VolumesRef])))
         @@ (VolumesPath(<<"1">>, "Storage", <<"a">>) :>
                File(Obj1("Members", JArr(<<Ref(<<"/", "1">>)>>))))
         @@ (VolumeFile("Storage", <<"a">>, <<"1">>) :> File(RaidVolume(<<"1">>)))

\* A host with a document of another shape: Chassis.json an array, Members a
\* number, a controller whose Name is a number.
OddHost(report) ==
    IF report = "get_power_metrics"
    THEN (ChassisJson :> File(ChassisOne))
    ELSE IF report = "get_temperature_information"
    THEN (ChassisJson :> File(Obj1("Members", JNum(5))))
    ELSE (SystemsJson :> File(Obj1("Members", ChassisOne)))
         @@ (StorageCollectionPath(<<"1">>) :>
                File(Obj1("Members", JArr(<<Ref(<<"/", "a">>)>>))))
         @@ (StoragePath(<<"1">>, "Storage", <<"a">>) :>
                File(Obj1("StorageControllers", JArr(<<Obj1("Name", JNum(5))>>))))

\* The entries a datacenter directory may hold under one name: a file, an
\* empty host directory, a well-formed host, an odd host.
HostEntries(report, name) ==
    {[name |-> name, is_dir |-> FALSE, tree |-> NoSnapshot]}
        \cup {[name |-> name, is_dir |-> TRUE, tree |-> t] :
                 t \in {NoSnapshot, GoodHost(report), OddHost(report)}}

\* The enumerations of a directory of at most n entries with distinct names.
Listings(report, n) ==
    {l \in UNION {[1..m -> UNION {HostEntries(report, x) : x \in HostNames}] : m \in 0..n} :
        \A i, j \in 1..Len(l) : i # j => l[i].name # l[j].name}

DatacenterA(report) ==
    {[name |-> <<"A">>, is_dir |-> FALSE, hosts |-> <<>>],
     [name |-> <<"A">>, is_dir |-> TRUE, hosts |-> <<>>],
     [name |-> <<"A">>, is_dir |-> TRUE,
      hosts |-> <<[name |-> <<"f">>, is_dir |-> TRUE, tree |-> GoodHost(report)]>>]}

DatacenterD(report) ==
    {[name |-> <<"D">>, is_dir |-> TRUE, hosts |-> l] : l \in Listings(report, MaxHosts)}

MainReports == {"get_power_metrics", "get_raid_information"}

\* main's locals before its first statement.
MainLocals(base) ==
    [base |-> base, d |-> 1, datacenter |-> <<>>, hosts |-> <<>>, h |-> 1,
     all_results |-> <<>>, lines |-> <<>>, run |-> 1,
     previous |-> [pc |-> "", lines |-> <<>>, all_results |-> <<>>]]

InitMain ==
    /\ fn \in MainReports
    /\ \E a \in DatacenterA(fn), d \in DatacenterD(fn) :
          arg \in {MainLocals(<<a, d>>), MainLocals(<<d, a>>)}
    /\ pc = "main"
    /\ NoWalk
    /\ ret = Ok(JNull)

NextMain ==
    \/ Main_datacenter
    \/ Main_host
    \/ Main_append
    \/ Main_print
    \/ Begin_get_power_metrics
    \/ Step_get_power_metrics
    \/ Return_get_power_metrics
    \/ Begin_get_raid_information
    \/ Step_get_raid_information
    \/ Return_get_raid_information

SpecMain == InitMain /\ [][NextMain]_vars

(***************************************************************************)
(* SpecRescan: the temperature report run twice over one dump.  The second *)
(* run starts main afresh; arg.previous keeps what the first run displayed *)
(* and collected, for comparison only.                                      *)
(***************************************************************************)
MaxRuns == 2

\* The program is started again over the same dump.
Main_again ==
    /\ pc \in {"printed", "raised"}
    /\ arg.run < MaxRuns
    /\ arg' = [MainLocals(arg.base) EXCEPT
                  !.run = arg.run + 1,
                  !.previous = [pc |-> pc, lines |-> arg.lines,
                                all_results |-> arg.all_results]]
    /\ pc' = "main"
    /\ fs' = NoSnapshot
    /\ members' = <<>>
    /\ idx' = 0
    /\ result' = JNull
    /\ loc' = JNull
    /\ reads' = <<>>
    /\ UNCHANGED <<fn, ret>>

InitRescan ==
    /\ fn = "get_temperature_information"
    /\ \E a \in DatacenterA(fn), d \in DatacenterD(fn) :
          arg \in {MainLocals(<<a, d>>), MainLocals(<<d, a>>)}
    /\ pc = "main"
    /\ NoWalk
    /\ ret = Ok(JNull)

NextRescan ==
    \/ Main_datacenter
    \/ Main_host
    \/ Main_append
    \/ Main_print
    \/ Main_again
    \/ Begin_get_temperature_information
    \/ Step_get_temperature_information
    \/ Return_get_temperature_information

SpecRescan == InitRescan /\ [][NextRescan]_vars

(***************************************************************************)
(* C14                                                                     *)
(***************************************************************************)
\* main is over: the display is done, or an exception left main.
Finished == pc \in {"printed", "raised"}

\* The host lines on the output, in order (the controller and volume lines
\* of the RAID report are indented under their host).
Emitted ==
    SelectSeq(arg.lines,
              LAMBDA l : l.text \in {"{head}: {status} --> {message}",
                                     "[{redfish_version}] [{power_states_str}] {datacenter}/{hostname}: ..."})

\* The host directories of the dump as <<datacenter, host>> positions.
HostDirs ==
    {<<d, h>> \in (1..Len(arg.base)) \X (1..MaxHosts + 1) :
        /\ arg.base[d].is_dir
        /\ h <= Len(arg.base[d].hosts)
        /\ arg.base[d].hosts[h].is_dir}

\* The position of a datacenter name in the enumeration of the dump.
Position(name) == CHOOSE d \in 1..Len(arg.base) : arg.base[d].name = name

\* C14: when main is over, exactly one record has been emitted per host
\* directory and none for any other entry, the datacenters appear in their
\* enumeration order, and the hosts of one datacenter appear together, sorted
\* by name.
C14_OneRecordPerHostInOrder ==
    Finished =>
        /\ Len(Emitted) = Cardinality(HostDirs)
        /\ \A x \in HostDirs :
              \E i \in 1..Len(Emitted) :
                 /\ Emitted[i].datacenter = arg.base[x[1]].name
                 /\ Emitted[i].hostname = arg.base[x[1]].hosts[x[2]].name
        /\ \A i, j \in 1..Len(Emitted) :
              i < j =>
                 /\ Position(Emitted[i].datacenter) <= Position(Emitted[j].datacenter)
                 /\ Emitted[i].datacenter = Emitted[j].datacenter =>
                       StrLess(Emitted[i].hostname, Emitted[j].hostname)

\* The same on the runs in which main reaches its display.
C14_PrintedInOrder == pc = "printed" => C14_OneRecordPerHostInOrder

\* A run that displayed two hosts of one datacenter enumerated out of order,
\* next to an entry that is no directory.
C14_PrintedWitness ==
    /\ pc = "printed"
    /\ Len(Emitted) >= 2
    /\ \E d \in 1..Len(arg.base) :
          /\ Len(arg.base[d].hosts) >= 2
          /\ StrLess(arg.base[d].hosts[2].name, arg.base[d].hosts[1].name)
          /\ arg.base[d].hosts[1].is_dir /\ arg.base[d].hosts[2].is_dir
    /\ \E d \in 1..Len(arg.base) : ~arg.base[d].is_dir

(***************************************************************************)
(* C15                                                                     *)
(***************************************************************************)
\* The subtree of the host directory a collected record was made from.
TreeOf(r) ==
    LET d == Position(r.datacenter)
        h == CHOOSE h \in 1..Len(arg.base[d].hosts) :
                 arg.base[d].hosts[h].name = r.hostname
    IN arg.base[d].hosts[h].tree

\* The records collected so far, in this run and in the one before it.
Collected ==
    {arg.all_results[i] : i \in 1..Len(arg.all_results)}
        \cup {arg.previous.all_results[i] : i \in 1..Len(arg.previous.all_results)}

DetailUnavailable(m) == HasId(m) /\ DetailOf(m).st # "ok"

\* The files the walk has loaded.
FilesRead == {reads[i] : i \in 1..Len(reads)}

\* The members walked so far, those with an unavailable detail left out.
WithDetail == SelectSeq(Walked, LAMBDA m : ~DetailUnavailable(m))

\* C16: in every chassis-based report a member whose Chassis/<id>.json is
\* unavailable is skipped entirely: neither its Thermal.json nor its Power.json
\* is read, and the power states and items of the record are those owed by the
\* other members alone.
C16_UnavailableDetailSkipsMember ==
    fn \in ChassisReports /\ InLoopOrDone =>
        /\ \A i \in 1..Len(Walked) :
              DetailUnavailable(Walked[i]) =>
                 /\ ThermalPath(IdOf(Walked[i])) \notin FilesRead
                 /\ PowerPath(IdOf(Walked[i])) \notin FilesRead
        /\ ActualStates = ExpectedStates(fn, WithDetail)
        /\ ActualItems = ExpectedItems(fn, WithDetail)

(***************************************************************************)
(* C17                                                                     *)
(***************************************************************************)
ThermalReports == {"get_fan_metrics", "get_temperature_information"}

\* The entries of doc[list], each as the tuple of its fields, a field that is
\* absent or null replaced by its default.
StoredRows(doc, list, fields, defaults) ==
    LET entries == Stored(doc, <<KName(list)>>, EmptyList).a
    IN [i \in 1..Len(entries) |->
           [k \in 1..Len(fields) |-> Stored(entries[i], <<KName(fields[k])>>, defaults[k])]]

\* The Thermal items one member owes to the record: those of its Thermal
\* document, if its detail carries a Thermal reference and the document loads.
ThermalItems(report, m) ==
    IF /\ HasId(m)
       /\ DetailOf(m).st = "ok"
       /\ Lookup(DetailOf(m).doc, <<KName("Thermal")>>).found
       /\ ThermalOf(m).st = "ok"
    THEN IF report = "get_fan_metrics"
         THEN StoredRows(ThermalOf(m).doc, "Fans", <<"Name", "Reading">>, <<NA, NA>>)
         ELSE StoredRows(ThermalOf(m).doc, "Temperatures",
                         <<"Name", "ReadingCelsius", "PhysicalContext">>,
                         <<Str_Dash, NA, Str_Dash>>)
    ELSE <<>>

RECURSIVE ExpectedThermalItems(_, _)
ExpectedThermalItems(report, ms) ==
    IF ms = <<>> THEN <<>>
    ELSE ThermalItems(report, Head(ms)) \o ExpectedThermalItems(report, Tail(ms))

\* The fan or sensor items the record holds so far, field by field.
ActualThermalItems ==
    IF fn = "get_fan_metrics"
    THEN [i \in 1..Len(result.fans) |-> <<result.fans[i].name, result.fans[i].reading_rpm>>]
    ELSE [i \in 1..Len(result.temperatures) |->
             <<result.temperatures[i].name, result.temperatures[i].reading,
               result.temperatures[i].physical_context>>]

\* C17: in the fan and temperature reports the record holds the Fans /
\* Temperatures of exactly the chassis whose detail carries a Thermal reference
\* and whose Thermal.json loads (a Thermal.json on disk without the reference
\* contributes nothing), each item with its name, reading and physical context
\* replaced by the default when absent.
C17_ThermalOnlyByReference ==
    fn \in ThermalReports /\ InLoopOrDone =>
        ActualThermalItems = ExpectedThermalItems(fn, Walked)

(***************************************************************************)
(* C18                                                                     *)
(***************************************************************************)
\* The storage document of a member of the storage collection.
StorageOf(m) ==
    FileAt(StoragePath(FinalSegment(Stripped(FirstSystemRef.v.s)), loc.storage_dir_name,
                       IdOf(m)))

\* The StorageControllers entries of a member whose storage document loads.
ControllersOf(m) ==
    IF HasId(m) /\ StorageOf(m).st = "ok"
    THEN Stored(StorageOf(m).doc, <<KName("StorageControllers")>>, EmptyList).a
    ELSE <<>>

\* What is recorded of one controller entry: its name (its model, or
\* "Controller", when it has none), its model, its supported RAID types.
RecordOf(c) ==
    [name |-> Stored(c, <<KName("Name")>>, Stored(c, <<KName("Model")>>, Str_Controller)),
     model |-> Stored(c, <<KName("Model")>>, JNull),
     supported_raid_types |-> Stored(c, <<KName("SupportedRAIDTypes")>>, EmptyList)]

\* s contains "raid", whatever the case of its letters.
MentionsRaid(s) ==
    \E i \in 1..Len(s) :
       /\ i + 3 <= Len(s)
       /\ s[i] \in {"r", "R"} /\ s[i + 1] \in {"a", "A"}
       /\ s[i + 2] \in {"i", "I"} /\ s[i + 3] \in {"d", "D"}

\* The rule of a RAID-capable controller.
CapableByRule(c) ==
    \/ RecordOf(c).supported_raid_types.a # <<>>
    \/ MentionsRaid(RecordOf(c).name.s)
    \/ MentionsRaid(Stored(c, <<KName("Description")>>, JStr(<<>>)).s)

RECURSIVE ExpectedControllers(_)
ExpectedControllers(ms) ==
    IF ms = <<>> THEN <<>>
    ELSE [i \in 1..Len(ControllersOf(Head(ms))) |-> RecordOf(ControllersOf(Head(ms))[i])]
         \o ExpectedControllers(Tail(ms))

\* C18: at every step of the storage walk the record holds, once each and in
\* encounter order, the controllers of the storage members walked so far whose
\* document loads, and raid_capable is true exactly when one of them lists a
\* supported RAID type or mentions "raid" in its name or description; the
\* controllers walked only grow, so a later controller or member never clears
\* the flag.
C18_ControllersAndCapability ==
    fn = "get_raid_information" /\ InLoopOrDone =>
        /\ result.controllers = ExpectedControllers(Walked)
        /\ result.raid_capable <=>
              \E i \in 1..Len(Walked) :
                 \E k \in 1..Len(ControllersOf(Walked[i])) :
                    CapableByRule(ControllersOf(Walked[i])[k])

\* Witness of C18: two storage members walked, the first with a controller
\* that is RAID-capable by its description alone, the second with a plain one,
\* and the host returned as RAID-capable.
C18_Witness ==
    /\ fn = "get_raid_information" /\ pc = "done"
    /\ Len(members) = 2
    /\ ControllersOf(members[1]) = <<DescribedController>>
    /\ ControllersOf(members[2]) = <<PlainController>>
    /\ Len(result.controllers) = 2
    /\ result.raid_capable

(***************************************************************************)
(* SpecPowerPair: get_power_metrics of report_power.py, then                *)
(* get_power_metrics of script.py, over the same host.  arg keeps how the   *)
(* first call ended, for comparison only.  The documents hold fields that   *)
(* are absent, null, or an empty list where an object is expected.          *)
(***************************************************************************)
PairIndexes ==
    {Missing,
     File(EmptyObj),
     File(JObj([RedfishVersion |-> JNull])),
     File(JObj([RedfishVersion |-> JStr(<<"1">>)]))}

PairMembers == {Ref(<<"/", "1">>), Ref(<<"/", "2", "/">>)}

\* A chassis with a Power reference and a null power state.
NullStateDetail(id) ==
    JObj([PowerState |-> JNull, Power |-> Ref(<<"/">> \o id \o <<"/", "P">>)])

\* A Power document whose first PowerControl entry has a null reading and an
\* empty list for PowerMetrics.
SparsePowerDoc ==
    JObj([PowerControl |->
            JArr(<<JObj([PowerConsumedWatts |-> JNull, PowerMetrics |-> EmptyList])>>)])

\* A Power document whose PowerMetrics holds a null and a list.
NullMetricsDoc ==
    JObj([PowerControl |->
            JArr(<<JObj([PowerMetrics |->
                           JObj([MinConsumedWatts |-> JNull,
                                 AverageConsumedWatts |-> JArr(<<JNum(7)>>)])])>>)])

InitPowerPair ==
    /\ fn = "get_power_metrics"
    /\ \E i \in PairIndexes,
          m \in SeqsUpTo(PairMembers, MaxMembers),
          d1 \in {Missing, File(FullDetail(<<"1">>)), File(NullStateDetail(<<"1">>))},
          d2 \in {File(FullDetail(<<"2">>)), File(BareDetail(<<"2">>))},
          p1 \in {Missing, File(PowerDoc(<<"1">>)), File(JObj([PowerControl |-> EmptyList])),
                  File(SparsePowerDoc)},
          p2 \in {File(PowerDoc(<<"2">>)), File(NullMetricsDoc)} :
         fs = (IndexJson :> i)
              @@ (ChassisJson :> File(Obj1("Members", JArr(m))))
              @@ (ChassisDetailPath(<<"1">>) :> d1)
              @@ (ChassisDetailPath(<<"2">>) :> d2)
              @@ (PowerPath(<<"1">>) :> p1)
              @@ (PowerPath(<<"2">>) :> p2)
    /\ arg = JNull
    /\ pc = "call"
    /\ members = <<>>
    /\ idx = 0
    /\ result = JNull
    /\ loc = JNull
    /\ reads = <<>>
    /\ ret = Ok(JNull)

\* The other implementation is called on the same host directory.
Call_script_get_power_metrics ==
    /\ fn = "get_power_metrics"
    /\ pc \in {"done", "raised"}
    /\ arg' = [pc |-> pc, result |-> result, ret |-> ret]
    /\ fn' = "script.get_power_metrics"
    /\ pc' = "call"
    /\ members' = <<>>
    /\ idx' = 0
    /\ result' = JNull
    /\ loc' = JNull
    /\ reads' = <<>>
    /\ ret' = Ok(JNull)
    /\ UNCHANGED fs

NextPowerPair ==
    \/ Begin_get_power_metrics
    \/ Step_get_power_metrics
    \/ Return_get_power_metrics
    \/ Call_script_get_power_metrics
    \/ Begin_script_get_power_metrics
    \/ Step_script_get_power_metrics
    \/ Return_script_get_power_metrics

SpecPowerPair == InitPowerPair /\ [][NextPowerPair]_vars

(***************************************************************************)
(* C19                                                                     *)
(***************************************************************************)
\* Both implementations have run over the host.
BothReturned == fn = "script.get_power_metrics" /\ pc \in {"done", "raised"}

\* C19: over the same host, get_power_metrics of script.py ends as
\* get_power_metrics of report_power.py did, and returns the same record:
\* redfish_version, power_states and the four watt fields.
C19_PowerReportsAgree ==
    BothReturned =>
        /\ pc = arg.pc
        /\ pc = "done" => result = arg.result
        /\ pc = "raised" => ret = arg.ret

\* Witness of C19: both returned a record made from a null power state, a null
\* reading and an empty list in place of PowerMetrics.
C19_Witness ==
    /\ BothReturned /\ pc = "done"
    /\ Len(members) = 2
    /\ FileAt(ChassisDetailPath(<<"1">>)) = File(NullStateDetail(<<"1">>))
    /\ FileAt(PowerPath(<<"1">>)) = File(SparsePowerDoc)
    /\ FileAt(IndexJson) = File(EmptyObj)
    /\ result.redfish_version = NA
    /\ result.PowerConsumedWatts = NA
    /\ result.MinConsumedWatts = NA
    /\ result.power_states # <<>>

====
